---------------------------- MODULE Spec2Model ----------------------------
(***************************************************************************)
(* Site level analysis of daily gridded climate data                      *)
(* (src/process_climate_data.py): the lookback windows of day_forcings and *)
(* other_period and the spell metrics of metrics, for one site and its two *)
(* collection dates.                                                       *)
(*                                                                         *)
(* Time.  A pandas Timestamp is modelled as a number of seconds since      *)
(* 1970-01-01 00:00 and a calendar date as a number of days since          *)
(* 1970-01-01.  The daily series is indexed at midnight, so the row of     *)
(* day d has the timestamp d * SecPerDay.                                  *)
(*                                                                         *)
(* Values.  Temperatures, vpd and precipitation are fixed point integers   *)
(* (precipitation in tenths of a millimetre).  A mean is kept as the exact *)
(* fraction sum / count, so two means are compared by cross               *)
(* multiplication; floating point rounding is not modelled.               *)
(***************************************************************************)
EXTENDS Integers, Sequences, FiniteSets, TLC

VARIABLES site, df, res, pc, arg, ret

vars == <<site, df, res, pc, arg, ret>>

---------------------------------------------------------------------------
(* Durations of pandas.to_timedelta(1, unit=...), in seconds.  The units  *)
(* 'M' and 'Y' are the mean Gregorian month and year.                      *)

SecPerDay == 86400

MonthSecs == 2629746

YearSecs == 31556952

(* running mean windows and the index shift of the 30 day mean, in days *)
ShortWin == 3

LongWin == 30

ShiftDays == 3

(* variant: runs of 2 days count as spells *)
MinSpell_two == ShortWin - 1

(* minimal length of a heatwave or of an atmospheric dry spell, in days *)
MinSpell == 3

(* BoM "no precipitation" threshold, 0.2 mm, in tenths of a millimetre *)
BoM_thr == 2

(* latitude of the tropics, 23.45 degrees, in hundredths of a degree *)
TropicLat == 2345

---------------------------------------------------------------------------
(* Calendar: the year, month and day of a day number, as pandas reads     *)
(* them off a DatetimeIndex (proleptic Gregorian calendar).               *)

DaysFromCivil(y, m, d) ==
    LET yy  == IF m <= 2 THEN y - 1 ELSE y
        era == yy \div 400
        yoe == yy - era * 400
        mp  == IF m > 2 THEN m - 3 ELSE m + 9
        doy == (153 * mp + 2) \div 5 + d - 1
        doe == yoe * 365 + yoe \div 4 - yoe \div 100 + doy
    IN  era * 146097 + doe - 719468

CivilFromDays(z) ==
    LET zz  == z + 719468
        era == zz \div 146097
        doe == zz - era * 146097
        yoe == (doe - doe \div 1460 + doe \div 36524 - doe \div 146096) \div 365
        doy == doe - (365 * yoe + yoe \div 4 - yoe \div 100)
        mp  == (5 * doy + 2) \div 153
        d   == doy - (153 * mp + 2) \div 5 + 1
        m   == IF mp < 10 THEN mp + 3 ELSE mp - 9
        y   == yoe + era * 400 + (IF m <= 2 THEN 1 ELSE 0)
    IN  [year |-> y, month |-> m, day |-> d]

MonthOf(d) == CivilFromDays(d).month

YearOf(d) == CivilFromDays(d).year

(* date().strftime('%d/%m/%Y'): the day, month and year fields of the text *)
StrfDate(d) ==
    LET c == CivilFromDays(d) IN <<c.day, c.month, c.year>>

---------------------------------------------------------------------------
(* Generic helpers on sets and sequences.                                  *)

MinOf(S) == CHOOSE m \in S : \A x \in S : m <= x

MaxOf(S) == CHOOSE m \in S : \A x \in S : m >= x

(* the elements of a finite set of integers, in ascending order *)
SortedSeq(S) ==
    [k \in 1..Cardinality(S) |->
        CHOOSE e \in S : Cardinality({x \in S : x < e}) = k - 1]

(* python slice s[a:b] of a sequence, 0-based, b clamped to the length *)
PySlice(s, a, b) ==
    LET hi == IF b > Len(s) THEN Len(s) ELSE b
    IN  IF a >= hi THEN << >> ELSE SubSeq(s, a + 1, hi)

RECURSIVE SumFromTo(_, _, _)
SumFromTo(s, lo, hi) ==
    IF lo > hi THEN 0
    ELSE IF lo = hi THEN s[lo]
    ELSE LET mid == (lo + hi) \div 2
         IN  SumFromTo(s, lo, mid) + SumFromTo(s, mid + 1, hi)

(* the sum of a sequence of integers, halving the range *)
SeqSum(s) == SumFromTo(s, 1, Len(s))

RECURSIVE SumOver(_, _)
SumOver(f, S) ==
    IF S = {} THEN 0
    ELSE LET x == CHOOSE y \in S : TRUE IN f[x] + SumOver(f, S \ {x})

(* the sum of the values of a function with a finite domain *)
FnSum(f) == SumOver(f, DOMAIN f)

RECURSIVE Flatten(_)
Flatten(ss) ==
    IF ss = << >> THEN << >> ELSE Head(ss) \o Flatten(Tail(ss))

---------------------------------------------------------------------------
(* Result fields.  Every output column starts as NaN (prepare_new_df) and *)
(* a written field is a tagged value, so that "absent" is never confused  *)
(* with a number.                                                         *)

NaN == <<"nan", 0, 0>>

Inf == <<"inf", 0, 0>>

(* the number a / b, b > 0 *)
Num(a, b) == <<"num", a, b>>

(* the number sqrt(v) / m, m # 0 *)
Cv(v, m) == <<"cv", v, m>>

(* the text 'dd/mm/YYYY--dd/mm/YYYY' *)
Dates(d1, d2) == <<"dates", StrfDate(d1), StrfDate(d2)>>

IsNum(x) == x[1] = "num"

(* numpy.mean of a sequence of integers: nan (and a warning) when empty *)
np_mean(s) == IF s = << >> THEN NaN ELSE Num(SeqSum(s), Len(s))

---------------------------------------------------------------------------
(* The daily series df2 of a location (main, lines 115-135): one row per  *)
(* calendar day from df.first to df.last.  A series is stored as a        *)
(* background row and the rows of the days that differ from it.           *)

Cols == {"tmin", "tmax", "tmdw", "vprp3pm", "pre"}

(* a row; tmdw is the median of tmin and tmax, i.e. their mean *)
MkRow(tmin, tmax, vpd, pre) ==
    [tmin |-> tmin, tmax |-> tmax, tmdw |-> (tmin + tmax) \div 2,
     vprp3pm |-> vpd, pre |-> pre]

Row(d) == IF d \in DOMAIN df.ev THEN df.ev[d] ELSE df.bg

Val(col, d) == Row(d)[col]

(* the index of a frame is the ascending sequence of its days *)
DfIndex == [i \in 1..(df.last - df.first + 1) |-> df.first + i - 1]

(* frame.loc[a:b], a and b timestamps in seconds, both ends included *)
Loc(frame, a, b) ==
    SelectSeq(frame, LAMBDA d : a <= d * SecPerDay /\ d * SecPerDay <= b)

(* frame.loc[a:] *)
LocFrom(frame, a) == SelectSeq(frame, LAMBDA d : a <= d * SecPerDay)

(* frame.loc[:b] *)
LocTo(frame, b) == SelectSeq(frame, LAMBDA d : d * SecPerDay <= b)

(* variant: a started day of the duration counts as a whole day *)
DateMinus_ceil(d, secs) == d - (secs + SecPerDay - 1) \div SecPerDay

(* date - Timedelta for a datetime.date: only the whole days of the       *)
(* duration are subtracted                                                *)
DateMinus(d, secs) == d - secs \div SecPerDay

---------------------------------------------------------------------------
(* get_season, lines 777-825: the months of the season of date dt at      *)
(* latitude lat, and the rows of a frame that fall in those months.       *)

(* variant: October belongs to the wet season *)
season_months_oct(lat, dt) ==
    LET m == MonthOf(dt)
    IN  IF lat > -TropicLat /\ lat < TropicLat
        THEN IF m > 4 /\ m < 10 THEN {x \in 1..12 : x > 4 /\ x < 10}
             ELSE {x \in 1..12 : x > 9 \/ x < 5}
        ELSE IF m > 2 /\ m < 6 THEN {x \in 1..12 : x > 2 /\ x < 6}
             ELSE IF m > 5 /\ m < 9 THEN {x \in 1..12 : x > 5 /\ x < 9}
             ELSE IF m > 8 /\ m < 12 THEN {x \in 1..12 : x > 8 /\ x < 12}
             ELSE {x \in 1..12 : x > 11 \/ x < 3}

(* variant: the tropics include the latitudes -23.45 and 23.45 *)
season_months_closed(lat, dt) ==
    LET m == MonthOf(dt)
    IN  IF lat >= -TropicLat /\ lat <= TropicLat
        THEN IF m > 4 /\ m < 11 THEN {x \in 1..12 : x > 4 /\ x < 11}
             ELSE {x \in 1..12 : x > 10 \/ x < 5}
        ELSE IF m > 2 /\ m < 6 THEN {x \in 1..12 : x > 2 /\ x < 6}
             ELSE IF m > 5 /\ m < 9 THEN {x \in 1..12 : x > 5 /\ x < 9}
             ELSE IF m > 8 /\ m < 12 THEN {x \in 1..12 : x > 8 /\ x < 12}
             ELSE {x \in 1..12 : x > 11 \/ x < 3}

season_months(lat, dt) ==
    LET m == MonthOf(dt)
    IN  IF lat > -TropicLat /\ lat < TropicLat
        THEN IF m > 4 /\ m < 11 THEN {x \in 1..12 : x > 4 /\ x < 11}
             ELSE {x \in 1..12 : x > 10 \/ x < 5}
        ELSE IF m > 2 /\ m < 6 THEN {x \in 1..12 : x > 2 /\ x < 6}
             ELSE IF m > 5 /\ m < 9 THEN {x \in 1..12 : x > 5 /\ x < 9}
             ELSE IF m > 8 /\ m < 12 THEN {x \in 1..12 : x > 8 /\ x < 12}
             ELSE {x \in 1..12 : x > 11 \/ x < 3}

(* variant: the rows of the month of dt only *)
get_season_month(lat, frame, dt) ==
    SelectSeq(frame, LAMBDA d : MonthOf(d) = MonthOf(dt))

get_season(lat, frame, dt) ==
    LET months == season_months(lat, dt)
    IN  SelectSeq(frame, LAMBDA d : MonthOf(d) \in months)

---------------------------------------------------------------------------
(* consecutive, lines 828-858: the sublists of consecutive indexes of an  *)
(* index list, single indexes dropped.                                    *)

(* variant: single indexes are returned too *)
consecutive_keep_single(indexes) ==
    LET n      == Len(indexes)
        count  == <<1>> \o [i \in 1..(n - 1) |-> indexes[i + 1] - indexes[i]]
        where  == SortedSeq({i \in 0..(Len(count) - 1) : count[i + 1] > 1})
        start  == <<0>> \o where
        finish == where \o <<Len(count)>>
        idxs   == [i \in 1..Len(start) |-> PySlice(indexes, start[i], finish[i])]
    IN  SelectSeq(idxs, LAMBDA e : Len(e) > 0)

consecutive(indexes) ==
    LET n      == Len(indexes)
        count  == <<1>> \o [i \in 1..(n - 1) |-> indexes[i + 1] - indexes[i]]
        where  == SortedSeq({i \in 0..(Len(count) - 1) : count[i + 1] > 1})
        start  == <<0>> \o where
        finish == where \o <<Len(count)>>
        idxs   == [i \in 1..Len(start) |-> PySlice(indexes, start[i], finish[i])]
    IN  SelectSeq(idxs, LAMBDA e : Len(e) > 1)

---------------------------------------------------------------------------
(* running_mean, lines 861-883: var.rolling(N, min_periods=1).mean() at   *)
(* the row of day d, as the pair (sum, number of days averaged).          *)

(* the sum of a column over the rows of the days lo..hi: every row counts *)
(* as the background row, corrected on the days that differ from it       *)
RangeSum(col, lo, hi) ==
    (hi - lo + 1) * df.bg[col]
    + FnSum([e \in {x \in DOMAIN df.ev : lo <= x /\ x <= hi} |->
                df.ev[e][col] - df.bg[col]])

(* variant: the N rows are always averaged, the missing ones read as the  *)
(* background row                                                         *)
running_mean_full(col, N, d) ==
    [sum |-> RangeSum(col, d - N + 1, d), cnt |-> N]

running_mean(col, N, d) ==
    LET lo == IF d - N + 1 < df.first THEN df.first ELSE d - N + 1
    IN  [sum |-> RangeSum(col, lo, d), cnt |-> d - lo + 1]

---------------------------------------------------------------------------
(* numpy reductions over the rows of a frame.                             *)

Collects == {"Old", "Modern"}

(* the collection date of the site, a calendar day *)
CollectionDate(collect) == IF collect = "Old" THEN site.Old ELSE site.Modern

FrameDays(frame) == {frame[i] : i \in 1..Len(frame)}

(* what the records keep of the frame dfr of a period, an ascending       *)
(* selection of the daily index: its first and last day and its number of *)
(* rows                                                                   *)
NoSpan == [first |-> 0, last |-> 0, n |-> 0]

Span(frame) ==
    IF frame = << >> THEN NoSpan
    ELSE [first |-> frame[1], last |-> frame[Len(frame)], n |-> Len(frame)]

(* the daily amplitude tmax - tmin is handled like a column *)
ColVal(col, d) ==
    IF col = "amplitude" THEN Val("tmax", d) - Val("tmin", d) ELSE Val(col, d)

ColSum(frame, col) ==
    SeqSum([i \in 1..Len(frame) |-> ColVal(col, frame[i])])

ColSumSq(frame, col) ==
    SeqSum([i \in 1..Len(frame) |->
               ColVal(col, frame[i]) * ColVal(col, frame[i])])

np_mean_col(frame, col) == Num(ColSum(frame, col), Len(frame))

np_amin_col(frame, col) == Num(MinOf({ColVal(col, d) : d \in FrameDays(frame)}), 1)

np_amax_col(frame, col) == Num(MaxOf({ColVal(col, d) : d \in FrameDays(frame)}), 1)

(* np.std(x) / np.mean(x): the population standard deviation is           *)
(* sqrt(n * sum(x^2) - sum(x)^2) / n and the mean sum(x) / n.  A float    *)
(* division by zero raises no ZeroDivisionError: it yields inf, or nan    *)
(* for 0 / 0.                                                             *)
np_std_over_mean(frame, col) ==
    LET n  == Len(frame)
        sm == ColSum(frame, col)
        v  == n * ColSumSq(frame, col) - sm * sm
    IN  IF sm = 0 THEN (IF v = 0 THEN NaN ELSE Inf) ELSE Cv(v, sm)

(* Line 132 assigns a masked array to the column pre: the frame stores    *)
(* the data of the array, so the amounts of the days without rain stay in *)
(* the column and lines 1178 and 1522 compare them with BoM_thr.          *)
(* ma.sum, ma.mean and ma.amax over the column therefore run over every   *)
(* row.                                                                   *)
ma_sum(frame) == Num(ColSum(frame, "pre"), 1)

ma_mean(frame) == Num(ColSum(frame, "pre"), Len(frame))

ma_amax(frame) == np_amax_col(frame, "pre")

(* ma.amin(x.where(x > BoM_thr)), lines 1137-1138: where() puts nan on    *)
(* the rows at or below the threshold; Series.min refuses the fill_value  *)
(* keyword of ma.amin, which then takes the minimum of the values as an   *)
(* array with nothing masked, and the minimum of an array that holds a    *)
(* nan is nan.                                                            *)
ma_amin_where(frame) ==
    IF \E d \in FrameDays(frame) : Val("pre", d) <= BoM_thr THEN NaN
    ELSE np_amin_col(frame, "pre")

(* maximum - minimum, nan when the minimum is *)
ma_range(frame) ==
    IF ma_amin_where(frame) = NaN THEN NaN
    ELSE Num(ma_amax(frame)[2] - ma_amin_where(frame)[2], 1)

(* the months of the rows of a frame, ascending: what the records keep of *)
(* the season frame                                                       *)
FrameMonths(frame) == SortedSeq({MonthOf(d) : d \in FrameDays(frame)})

---------------------------------------------------------------------------
(* prepare_new_df, lines 289-728: every output column is created as NaN.  *)

Yrs == 1..5

NaN5 == [i \in Yrs |-> NaN]

prepare_day ==
    [c \in Collects |->
        [tmdw |-> NaN, tmin |-> NaN, tmax |-> NaN, vpd |-> NaN, ppt |-> NaN,
         dt |-> NaN]]

prepare_period ==
    [c \in Collects |->
        [avg_tmdw |-> NaN, avg_tmin |-> NaN, avg_tmax |-> NaN,
         avg_amplitude |-> NaN,
         min_tmdw |-> NaN, min_tmin |-> NaN, min_tmax |-> NaN,
         min_amplitude |-> NaN,
         max_tmdw |-> NaN, max_tmin |-> NaN, max_tmax |-> NaN,
         max_amplitude |-> NaN,
         var_tmdw |-> NaN, var_tmin |-> NaN, var_tmax |-> NaN,
         avg_vpd |-> NaN, min_vpd |-> NaN, max_vpd |-> NaN,
         range_vpd |-> NaN, var_vpd |-> NaN,
         total_ppt |-> NaN, avg_ppt |-> NaN, min_ppt |-> NaN,
         max_ppt |-> NaN, range_ppt |-> NaN, max_noppt |-> NaN,
         total_ppt_y |-> NaN5, total_ppt_season |-> NaN5,
         min_ppt_season |-> NaN5, max_ppt_season |-> NaN5,
         dfr |-> NoSpan, season |-> << >>]]

prepare_spell ==
    [totalN |-> NaN5, avg |-> NaN5, max |-> NaN5, dates |-> NaN5,
     recent |-> NaN, inter_totalN |-> NaN, inter_avg |-> NaN,
     inter_max |-> NaN]

prepare_noppt ==
    [max |-> NaN5, dates |-> NaN5, recent |-> NaN, inter_max |-> NaN]

prepare_metrics ==
    [c \in Collects |->
        [heatwave |-> prepare_spell, dry_spell |-> prepare_spell,
         no_ppt |-> prepare_noppt, dfr |-> NoSpan, season |-> << >>]]

Whichs == {"week", "month", "3 months", "5 years"}

prepare_new_df ==
    [day |-> prepare_day, week |-> prepare_period, month |-> prepare_period,
     m3 |-> prepare_period, y5 |-> prepare_period, metrics |-> prepare_metrics]

---------------------------------------------------------------------------
(* day_forcings, lines 886-926: the five values of the day before the     *)
(* collection date.  dt records the day that was looked up.               *)

day_forcings(p) ==
    [c \in Collects |->
        LET dt == CollectionDate(c) - 1
        IN  [p[c] EXCEPT !.tmdw = Num(Val("tmdw", dt), 1),
                         !.tmin = Num(Val("tmin", dt), 1),
                         !.tmax = Num(Val("tmax", dt), 1),
                         !.vpd  = Num(Val("vprp3pm", dt), 1),
                         !.ppt  = Num(Val("pre", dt), 1),
                         !.dt   = Dates(dt, dt)]]

---------------------------------------------------------------------------
(* other_period, lines 929-1240.                                          *)

(* variant: the season is the one of the last day of the period *)
season_date_last(dt2) == dt2

(* variant: the season is the one of the day after the collection date *)
season_date_next(dt2) == dt2 + 2

(* lines 1193 and 1306: the date given to get_season is dt2 + 1 day, dt2  *)
(* the last day of the period                                             *)
season_date(dt2) == dt2 + 1

(* lines 954-972: the first day dt1 of the lead up period ending on dt2 *)
period_start(dt2, which) ==
    CASE which = "week"     -> DateMinus(dt2, 6 * SecPerDay)
      [] which = "month"    -> DateMinus(dt2, 1 * MonthSecs)
      [] which = "3 months" -> DateMinus(dt2, 3 * MonthSecs)
      [] which = "5 years"  -> DateMinus(dt2, 5 * YearSecs)

(* variant: the period ends on the collection date itself *)
period_frame_at_ref(collect, which) ==
    LET dt2 == CollectionDate(collect)
        dt1 == period_start(dt2, which)
    IN  Loc(DfIndex, dt1 * SecPerDay, dt2 * SecPerDay)

(* line 986: dfr = df.loc[dt1:dt2] *)
period_frame(collect, which) ==
    LET dt2 == CollectionDate(collect) - 1
        dt1 == period_start(dt2, which)
    IN  Loc(DfIndex, dt1 * SecPerDay, dt2 * SecPerDay)

---------------------------------------------------------------------------
(* metrics, lines 1243-1583.                                              *)

(* lines 1283-1303: dftmp is df with the 3 day running means, merged      *)
(* (inner join on the dates) with the 30 day running means whose index was *)
(* moved by -ShiftDays days: the 30 day mean computed for the row of day  *)
(* d + ShiftDays carries the label d.                                     *)
dftmp_index ==
    SelectSeq(DfIndex, LAMBDA d : d + ShiftDays \in df.first..df.last)

short3(col, d) == running_mean(col, ShortWin, d)

long30(col, d) == running_mean(col, LongWin, d + ShiftDays)

(* lines 1346-1347: tmdw3 > tmdw30 on the row of day d (vpd3 > vpd30) *)
excess(col, d) ==
    LET a == short3(col, d)
        b == long30(col, d)
    IN  a.sum * b.cnt > b.sum * a.cnt

(* variant: a day without rain has no precipitation at all *)
rainless_zero(d) == Val("pre", d) <= 0

(* line 1522: a day without rain *)
rainless(d) == Val("pre", d) <= BoM_thr

(* variant: the start date of the old pass is kept for the modern pass *)
metrics_frame_old_start(collect) ==
    LET dt2 == CollectionDate(collect) - 1
        dt1 == DateMinus(site.Old - 1, 5 * YearSecs)
    IN  Loc(dftmp_index, dt1 * SecPerDay, dt2 * SecPerDay)

(* lines 1305-1306 *)
metrics_frame(collect) ==
    LET dt2 == CollectionDate(collect) - 1
        dt1 == DateMinus(dt2, 5 * YearSecs)
    IN  Loc(dftmp_index, dt1 * SecPerDay, dt2 * SecPerDay)

(* variant: a year is 365 whole days, so that the row on a boundary is in *)
(* two lead up years                                                      *)
year_slices_365(frame, last) ==
    LET t == last * SecPerDay
        y == 365 * SecPerDay
    IN  <<LocFrom(frame, t - 1 * y),
          Loc(frame, t - 2 * y, t - 1 * y),
          Loc(frame, t - 3 * y, t - 2 * y),
          Loc(frame, t - 4 * y, t - 3 * y),
          LocTo(frame, t - 4 * y)>>

(* lines 1309-1331 (and 1196-1218): the five lead up years of a frame     *)
(* whose period ends on the row `last`; frame is dfr or its season rows   *)
year_slices(frame, last) ==
    LET t == last * SecPerDay
    IN  <<LocFrom(frame, t - 1 * YearSecs),
          Loc(frame, t - 2 * YearSecs, t - 1 * YearSecs),
          Loc(frame, t - 3 * YearSecs, t - 2 * YearSecs),
          Loc(frame, t - 4 * YearSecs, t - 3 * YearSecs),
          LocTo(frame, t - 4 * YearSecs)>>

(* the positions j of a frame whose row is the row of a day of S *)
ind_where(frame, S) ==
    SelectSeq([j \in 1..Len(frame) |-> j - 1], LAMBDA j : frame[j + 1] \in S)

seq_lens(ind) == [k \in 1..Len(ind) |-> Len(ind[k])]

np_amax(s) == MaxOf({s[k] : k \in 1..Len(s)})

(* variant: the last position of the maximum *)
np_argmax_last(s) == MaxOf({k \in 1..Len(s) : s[k] = np_amax(s)})

(* the first position of the maximum *)
np_argmax(s) == MinOf({k \in 1..Len(s) : s[k] = np_amax(s)})

(* variant: the range ends on the last row of the frame *)
iloc_dates_to_end(frame, e) == Dates(frame[e[1] + 1], frame[Len(frame)])

(* frame.iloc[e]: first and last date of the rows at positions e *)
iloc_dates(frame, e) == Dates(frame[e[1] + 1], frame[e[Len(e)] + 1])

(* lines 1344-1394 and 1433-1483, body of the loop over the years: the    *)
(* spells of lead up year i (0 for y1) are the runs of at least MinSpell  *)
(* positions among the rows of the days S on which the excess holds.      *)
(* np.amax of an empty list raises ValueError, which skips the remaining  *)
(* assignments.                                                           *)
year_spells_untouched(q, frame, S, i) ==
    LET ind == SelectSeq(consecutive(ind_where(frame, S)),
                         LAMBDA e : Len(e) >= MinSpell)
        ls  == seq_lens(ind)
        q1  == [q EXCEPT !.totalN[i + 1] = Num(Len(ind), 1),
                         !.avg[i + 1] = np_mean(ls)]
    IN  IF ls = << >> THEN q
        ELSE LET q2 == [q1 EXCEPT
                          !.max[i + 1] = Num(np_amax(ls), 1),
                          !.dates[i + 1] = iloc_dates(frame, ind[np_argmax(ls)])]
             IN  IF i = 0 /\ Len(ind) > 1
                 THEN [q2 EXCEPT !.recent = iloc_dates(frame, ind[Len(ind)])]
                 ELSE q2

year_spells(q, frame, S, i) ==
    LET ind == SelectSeq(consecutive(ind_where(frame, S)),
                         LAMBDA e : Len(e) >= MinSpell)
        ls  == seq_lens(ind)
        q1  == [q EXCEPT !.totalN[i + 1] = Num(Len(ind), 1),
                         !.avg[i + 1] = np_mean(ls)]
    IN  IF ls = << >> THEN q1
        ELSE LET q2 == [q1 EXCEPT
                          !.max[i + 1] = Num(np_amax(ls), 1),
                          !.dates[i + 1] = iloc_dates(frame, ind[np_argmax(ls)])]
             IN  IF i = 0 /\ Len(ind) > 1
                 THEN [q2 EXCEPT !.recent = iloc_dates(frame, ind[Len(ind)])]
                 ELSE q2

(* variant: the most recent run is reported as soon as there is one run *)
year_noppt_any(q, frame, S, i) ==
    LET ind == consecutive(ind_where(frame, S))
        ls  == seq_lens(ind)
    IN  IF ls = << >> THEN q
        ELSE LET q2 == [q EXCEPT
                          !.max[i + 1] = Num(np_amax(ls), 1),
                          !.dates[i + 1] = iloc_dates(frame, ind[np_argmax(ls)])]
             IN  IF i = 0 /\ Len(ind) > 0
                 THEN [q2 EXCEPT !.recent = iloc_dates(frame, ind[Len(ind)])]
                 ELSE q2

(* lines 1518-1562, body of the loop over the years: consecutive days     *)
(* without rain, S the days without rain                                  *)
year_noppt(q, frame, S, i) ==
    LET ind == consecutive(ind_where(frame, S))
        ls  == seq_lens(ind)
    IN  IF ls = << >> THEN q
        ELSE LET q2 == [q EXCEPT
                          !.max[i + 1] = Num(np_amax(ls), 1),
                          !.dates[i + 1] = iloc_dates(frame, ind[np_argmax(ls)])]
             IN  IF i = 0 /\ Len(ind) > 1
                 THEN [q2 EXCEPT !.recent = iloc_dates(frame, ind[Len(ind)])]
                 ELSE q2

RECURSIVE loop_spells(_, _, _, _)
loop_spells(q, years, S, i) ==
    IF i >= Len(years) THEN q
    ELSE loop_spells(year_spells(q, years[i + 1], S, i), years, S, i + 1)

RECURSIVE loop_noppt(_, _, _, _)
loop_noppt(q, years, S, i) ==
    IF i >= Len(years) THEN q
    ELSE loop_noppt(year_noppt(q, years[i + 1], S, i), years, S, i + 1)

(* lines 1401-1408 and 1490-1497: the runs of the season rows of each     *)
(* lead up year, appended over the five years                             *)
season_ind(seasons, S, minlen) ==
    Flatten([i \in 1..Len(seasons) |->
        SelectSeq(consecutive(ind_where(seasons[i], S)),
                  LAMBDA e : Len(e) >= minlen)])

(* lines 1410-1423 and 1499-1512 *)
inter_spells(q, seasons, S) ==
    LET ls == seq_lens(season_ind(seasons, S, MinSpell))
        q1 == [q EXCEPT !.inter_totalN = Num(Len(ls), 1),
                        !.inter_avg = np_mean(ls)]
    IN  IF ls = << >> THEN q1
        ELSE [q1 EXCEPT !.inter_max = Num(np_amax(ls), 1)]

(* variant: the max is added to the value the record already holds *)
inter_noppt_add(q, seasons, S) ==
    LET ls == seq_lens(season_ind(seasons, S, 2))
    IN  IF ls = << >> THEN q
        ELSE IF q.inter_max = NaN THEN [q EXCEPT !.inter_max = Num(np_amax(ls), 1)]
        ELSE [q EXCEPT !.inter_max = Num(q.inter_max[2] + np_amax(ls), 1)]

(* lines 1564-1581 *)
inter_noppt(q, seasons, S) ==
    LET ls == seq_lens(season_ind(seasons, S, 2))
    IN  IF ls = << >> THEN q ELSE [q EXCEPT !.inter_max = Num(np_amax(ls), 1)]

(* lines 1176-1189: the longest run of days without rain of a period of  *)
(* a month or of 3 months; no run leaves the field as it is               *)
period_noppt(q, frame, S) ==
    LET ls == seq_lens(consecutive(ind_where(frame, S)))
    IN  IF ls = << >> THEN q ELSE Num(np_amax(ls), 1)

(* variant: tmdw3 and vpd3 are added to the series itself *)
metrics_df_inplace(d) ==
    [d EXCEPT !.bg = [c \in Cols \cup {"tmdw3", "vpd3"} |->
                         IF c \in Cols THEN d.bg[c] ELSE d.bg["tmdw"]]]

(* lines 1284-1303: the series as metrics leaves it.  The running means   *)
(* are new objects, the index shift of line 1292 is applied to them, and  *)
(* tmdw3 and vpd3 are added to dftmp, a copy of df (line 1299); neither   *)
(* day_forcings nor other_period assigns to df or to a slice of it.       *)
metrics_df(d) == d

(* other_period, lines 986-1240: the temperature, vpd and precipitation   *)
(* columns of a period, and for the 5 years the precipitation of every    *)
(* lead up year and of its season rows                                    *)
other_period(p, which) ==
    [c \in Collects |->
        LET dt2     == CollectionDate(c) - 1
            dfr     == period_frame(c, which)
            season  == get_season(site.Lat, dfr, season_date(dt2))
            years   == year_slices(dfr, dfr[Len(dfr)])
            seasons == year_slices(season, dfr[Len(dfr)])
            norain  == {d \in FrameDays(dfr) : rainless(d)}
            five    == which = "5 years"
        IN  [p[c] EXCEPT
                !.avg_tmdw = np_mean_col(dfr, "tmdw"),
                !.avg_tmin = np_mean_col(dfr, "tmin"),
                !.avg_tmax = np_mean_col(dfr, "tmax"),
                !.avg_amplitude = np_mean_col(dfr, "amplitude"),
                !.min_tmdw = np_amin_col(dfr, "tmdw"),
                !.min_tmin = np_amin_col(dfr, "tmin"),
                !.min_tmax = np_amax_col(dfr, "tmax"),
                !.min_amplitude = np_amin_col(dfr, "amplitude"),
                !.max_tmdw = np_amax_col(dfr, "tmdw"),
                !.max_tmin = np_amax_col(dfr, "tmin"),
                !.max_tmax = np_amax_col(dfr, "tmax"),
                !.max_amplitude = np_amax_col(dfr, "amplitude"),
                !.var_tmdw = np_std_over_mean(dfr, "tmdw"),
                !.var_tmin = np_std_over_mean(dfr, "tmin"),
                !.var_tmax = np_std_over_mean(dfr, "tmax"),
                !.avg_vpd = np_mean_col(dfr, "vprp3pm"),
                !.min_vpd = np_amin_col(dfr, "vprp3pm"),
                !.max_vpd = np_amax_col(dfr, "vprp3pm"),
                !.range_vpd = Num(np_amax_col(dfr, "vprp3pm")[2]
                                  - np_amin_col(dfr, "vprp3pm")[2], 1),
                !.var_vpd = np_std_over_mean(dfr, "vprp3pm"),
                !.total_ppt = ma_sum(dfr),
                !.avg_ppt = ma_mean(dfr),
                !.min_ppt = ma_amin_where(dfr),
                !.max_ppt = ma_amax(dfr),
                !.range_ppt = ma_range(dfr),
                !.max_noppt =
                    IF which \in {"month", "3 months"}
                    THEN period_noppt(p[c].max_noppt, dfr, norain)
                    ELSE p[c].max_noppt,
                !.total_ppt_y =
                    IF five THEN [i \in Yrs |-> ma_sum(years[i])]
                    ELSE p[c].total_ppt_y,
                !.total_ppt_season =
                    IF five THEN [i \in Yrs |-> ma_sum(seasons[i])]
                    ELSE p[c].total_ppt_season,
                !.min_ppt_season =
                    IF five THEN [i \in Yrs |-> ma_amin_where(seasons[i])]
                    ELSE p[c].min_ppt_season,
                !.max_ppt_season =
                    IF five THEN [i \in Yrs |-> ma_amax(seasons[i])]
                    ELSE p[c].max_ppt_season,
                !.season = IF five THEN FrameMonths(season) ELSE p[c].season,
                !.dfr = Span(dfr)]]

metrics(p) ==
    [c \in Collects |->
        LET dt2     == CollectionDate(c) - 1
            dfr     == metrics_frame(c)
            season  == get_season(site.Lat, dfr, season_date(dt2))
            last    == dfr[Len(dfr)]
            years   == year_slices(dfr, last)
            seasons == year_slices(season, last)
            hot     == {d \in FrameDays(dfr) : excess("tmdw", d)}
            dry     == {d \in FrameDays(dfr) : excess("vprp3pm", d)}
            norain  == {d \in FrameDays(dfr) : rainless(d)}
        IN  [p[c] EXCEPT
                !.heatwave  = inter_spells(
                                 loop_spells(p[c].heatwave, years, hot, 0),
                                 seasons, hot),
                !.dry_spell = inter_spells(
                                 loop_spells(p[c].dry_spell, years, dry, 0),
                                 seasons, dry),
                !.no_ppt    = inter_noppt(
                                 loop_noppt(p[c].no_ppt, years, norain, 0),
                                 seasons, norain),
                !.season    = FrameMonths(season),
                !.dfr       = Span(dfr)]]

---------------------------------------------------------------------------
(* The sites and series the model is run on.                              *)

(* latitudes, in hundredths of a degree: a tropical and a temperate site *)
Lats == {-1000, -3800}

OldDates == {DaysFromCivil(2006, 7, 15), DaysFromCivil(2006, 3, 1)}

ModernDates == {DaysFromCivil(2008, 3, 16)}

(* the last day held by the netcdf file *)
SeriesEnd == DaysFromCivil(2008, 12, 31)

BgRow == MkRow(-2, 2, 1, 10)

(* a hot day without rain: 0.2 mm is no rain *)
HotRow == MkRow(-2, 6, 2, 2)

(* a cold day with little rain *)
ColdRow == MkRow(-6, 2, 0, 5)

EvRows == {HotRow, ColdRow}

(* at most MaxEvents days of a series differ from the background *)
MaxEvents == 2

(* number of days before the old collection date that may differ *)
ProbeLen == 2

InSeason(s, d) == MonthOf(d) \in season_months(s.Lat, s.Old)

(* the days that may differ from the background: the last days before the *)
(* old collection date, and the first and the last day of the season      *)
(* periods of the year before it                                          *)
ProbeDays(s) ==
    {s.Old - k : k \in 1..ProbeLen}
    \cup {d \in (s.Old - 366)..(s.Old - 1) :
            InSeason(s, d) /\ (~InSeason(s, d - 1) \/ ~InSeason(s, d + 1))}

(* a site whose modern collection date is the last day of autumn *)
EdgeSite == [Lat |-> -3800, Old |-> DaysFromCivil(2006, 7, 15),
             Modern |-> DaysFromCivil(2008, 5, 31)]

Sites == [Lat : Lats, Old : OldDates, Modern : ModernDates] \cup {EdgeSite}

EventSets(s) ==
    {E \in SUBSET ProbeDays(s) : Cardinality(E) <= MaxEvents}

(* lines 120-125: the index of df2 starts on 1 January, five years before *)
(* the year of the old collection date                                    *)
Series(s, ev) ==
    [first |-> DaysFromCivil(YearOf(s.Old) - 5, 1, 1), last |-> SeriesEnd,
     bg |-> BgRow, ev |-> ev]

Init ==
    /\ site \in Sites
    /\ \E E \in EventSets(site) : \E ev \in [E -> EvRows] : df = Series(site, ev)
    /\ res = prepare_new_df
    /\ pc = "day"
    /\ arg = << >>
    /\ ret = << >>

---------------------------------------------------------------------------
(* main, lines 137-153: the six computations of a site, in order.         *)

DayForcings ==
    /\ pc = "day"
    /\ res' = [res EXCEPT !.day = day_forcings(res.day)]
    /\ pc' = "week"
    /\ UNCHANGED <<site, df, arg, ret>>

Week ==
    /\ pc = "week"
    /\ res' = [res EXCEPT !.week = other_period(res.week, "week")]
    /\ pc' = "month"
    /\ UNCHANGED <<site, df, arg, ret>>

Month ==
    /\ pc = "month"
    /\ res' = [res EXCEPT !.month = other_period(res.month, "month")]
    /\ pc' = "3 months"
    /\ UNCHANGED <<site, df, arg, ret>>

ThreeMonths ==
    /\ pc = "3 months"
    /\ res' = [res EXCEPT !.m3 = other_period(res.m3, "3 months")]
    /\ pc' = "5 years"
    /\ UNCHANGED <<site, df, arg, ret>>

FiveYears ==
    /\ pc = "5 years"
    /\ res' = [res EXCEPT !.y5 = other_period(res.y5, "5 years")]
    /\ pc' = "metrics"
    /\ UNCHANGED <<site, df, arg, ret>>

Metrics ==
    /\ pc = "metrics"
    /\ res' = [res EXCEPT !.metrics = metrics(res.metrics)]
    /\ pc' = "done"
    /\ UNCHANGED <<site, df, arg, ret>>

Next == DayForcings \/ Week \/ Month \/ ThreeMonths \/ FiveYears \/ Metrics

Spec == Init /\ [][Next]_vars

---------------------------------------------------------------------------
(* consecutive applied to any strictly ascending list of positions.       *)

(* largest position of an index list *)
MaxPos == 10

TheSite == [Lat |-> -3800, Old |-> DaysFromCivil(2006, 7, 15),
            Modern |-> DaysFromCivil(2008, 3, 16)]

InitRuns ==
    /\ site = TheSite
    /\ df = Series(TheSite, << >>)
    /\ res = prepare_new_df
    /\ pc = "call"
    /\ \E X \in SUBSET (0..MaxPos) : arg = SortedSeq(X)
    /\ ret = << >>

Consecutive ==
    /\ pc = "call"
    /\ ret' = consecutive(arg)
    /\ pc' = "done"
    /\ UNCHANGED <<site, df, res, arg>>

NextRuns == Consecutive

SpecRuns == InitRuns /\ [][NextRuns]_vars

---------------------------------------------------------------------------
(* The body of the loops over the lead up years, applied to one year      *)
(* slice: arg.frame is the slice (consecutive days), arg.S the days on    *)
(* which the predicate (excess, no rain) holds, and arg.i the number of   *)
(* the lead up year (0 for y1).                                           *)

(* longest year slice *)
MaxLen == 7

SliceStart == DaysFromCivil(2005, 12, 29)

InitYear ==
    /\ site = TheSite
    /\ res = prepare_new_df
    /\ pc = "call"
    /\ \E n \in 1..MaxLen : \E S \in SUBSET (SliceStart..(SliceStart + n - 1)) :
         \E i \in 0..4 :
            /\ arg = [frame |-> [k \in 1..n |-> SliceStart + k - 1],
                      S |-> S, i |-> i]
            /\ df = Series(TheSite, << >>)
    /\ ret = [heatwave |-> prepare_spell, no_ppt |-> prepare_noppt]

YearBody ==
    /\ pc = "call"
    /\ ret' = [heatwave |-> year_spells(ret.heatwave, arg.frame, arg.S, arg.i),
               no_ppt |-> year_noppt(ret.no_ppt, arg.frame, arg.S, arg.i)]
    /\ pc' = "done"
    /\ UNCHANGED <<site, df, res, arg>>

NextYear == YearBody

SpecYear == InitYear /\ [][NextYear]_vars

---------------------------------------------------------------------------
(* Reference notions used by the properties: runs of days, stated on sets *)
(* of days and not on positions.                                          *)

(* the maximal runs <<a, b>> of consecutive days of F that are all in S *)
MaximalRuns(F, S) ==
    {r \in F \X F :
        /\ r[1] <= r[2]
        /\ \A d \in r[1]..r[2] : d \in F /\ d \in S
        /\ ~((r[1] - 1) \in F /\ (r[1] - 1) \in S)
        /\ ~((r[2] + 1) \in F /\ (r[2] + 1) \in S)}

RunLen(r) == r[2] - r[1] + 1

RunsAtLeast(F, S, n) == {r \in MaximalRuns(F, S) : RunLen(r) >= n}

TotalLen(Q) == FnSum([r \in Q |-> RunLen(r)])

LongestLen(Q) == MaxOf({RunLen(r) : r \in Q})

(* the chronologically last run of a non-empty set of runs *)
LastRun(Q) == CHOOSE r \in Q : \A q \in Q : q[1] <= r[1]

ArgDays == {arg.frame[k] : k \in 1..Len(arg.frame)}

ArgSpells == RunsAtLeast(ArgDays, arg.S, 3)

ArgDryRuns == RunsAtLeast(ArgDays, arg.S, 2)

---------------------------------------------------------------------------
(* running_mean applied to the tmdw column of a short series, from its    *)
(* first day on: arg is the window N, ret the smoothed column.            *)

(* largest number of days of a signal *)
MaxSig == 4

SigVals == 1..4

Wins == {1, 2, ShortWin, LongWin}

SigStart == DaysFromCivil(2001, 1, 1)

SigSeries(s) ==
    [first |-> SigStart, last |-> SigStart + Len(s) - 1, bg |-> BgRow,
     ev |-> [d \in SigStart..(SigStart + Len(s) - 1) |->
                MkRow(s[d - SigStart + 1], s[d - SigStart + 1], 1, 10)]]

InitSmooth ==
    /\ site = TheSite
    /\ \E n \in 1..MaxSig : \E s \in [1..n -> SigVals] : df = SigSeries(s)
    /\ res = prepare_new_df
    /\ pc = "call"
    /\ arg \in Wins
    /\ ret = << >>

RunningMean ==
    /\ pc = "call"
    /\ ret' = [i \in 1..Len(DfIndex) |-> running_mean("tmdw", arg, DfIndex[i])]
    /\ pc' = "done"
    /\ UNCHANGED <<site, df, res, arg>>

NextSmooth == RunningMean

SpecSmooth == InitSmooth /\ [][NextSmooth]_vars

---------------------------------------------------------------------------
(* get_season applied to a frame, for latitudes on both sides of the      *)
(* tropics (in hundredths of a degree) and dates of every month: arg is   *)
(* the frame and the date dt, ret the rows returned.                      *)

SeasonLats ==
    {-3800, -TropicLat - 1, -TropicLat, -TropicLat + 1, -1000, 0,
     TropicLat - 1, TropicLat, TropicLat + 1, 3800}

(* the first and the last day of every month of 2007 *)
SeasonDates ==
    {DaysFromCivil(2007, m, 1) : m \in 1..12}
    \cup {DaysFromCivil(2007, m, 1) - 1 : m \in 2..13}

(* a whole year, and a winter that spans two years *)
SeasonFrames ==
    {Loc(DfIndex, DaysFromCivil(2005, 1, 1) * SecPerDay,
                  DaysFromCivil(2005, 12, 31) * SecPerDay),
     Loc(DfIndex, DaysFromCivil(2006, 11, 15) * SecPerDay,
                  DaysFromCivil(2007, 2, 15) * SecPerDay)}

InitSeason ==
    /\ \E lat \in SeasonLats : site = [TheSite EXCEPT !.Lat = lat]
    /\ df = Series(TheSite, << >>)
    /\ res = prepare_new_df
    /\ pc = "call"
    /\ \E f \in SeasonFrames : \E dt \in SeasonDates :
          arg = [frame |-> f, dt |-> dt]
    /\ ret = << >>

GetSeason ==
    /\ pc = "call"
    /\ ret' = get_season(site.Lat, arg.frame, arg.dt)
    /\ pc' = "done"
    /\ UNCHANGED <<site, df, res, arg>>

NextSeason == GetSeason

SpecSeason == InitSeason /\ [][NextSeason]_vars

---------------------------------------------------------------------------
(* main, lines 66-153 and 189 on: the loop over the sites of the csv      *)
(* file.  arg holds the inputs (the site list df1 and the netcdf file of  *)
(* every location), site and df the site and the series df2 of the        *)
(* current pass, res the rows filled so far, ret the position in the loop, *)
(* the passes that read a file and the rows written to the output files.  *)

(* number of sites of the csv file *)
NumSites == 2

BatchLocs == {<<-3800, 14500>>, <<-1000, 13000>>}

BatchSites ==
    {[Lat |-> l[1], Lon |-> l[2], Old |-> o, Modern |-> DaysFromCivil(2008, 3, 16)] :
        l \in BatchLocs, o \in {DaysFromCivil(2006, 7, 15), DaysFromCivil(2007, 3, 1)}}

(* number of daily rows of a file that reaches the modern collection date *)
FullLen == 2922

(* number of daily rows of a file that ends before the collection dates *)
ShortLen == 1800

(* a netcdf file: its number of rows, and its time dimension as the first *)
(* date and the number of days from one row to the next                   *)
Files ==
    {[n |-> FullLen, t0 |-> DaysFromCivil(2001, 1, 1), step |-> 1],
     [n |-> FullLen, t0 |-> 0, step |-> 2],
     [n |-> ShortLen, t0 |-> DaysFromCivil(2001, 1, 1), step |-> 1]}

(* line 80: df1.sort_values(by=['Lat', 'Lon']) *)
KeyLeq(a, b) == a.Lat < b.Lat \/ (a.Lat = b.Lat /\ a.Lon <= b.Lon)

(* variant: the site list is left in the order of the csv file *)
sort_values_none(csv) == {csv}

sort_values(csv) ==
    {q \in [1..Len(csv) -> FrameDays(csv)] :
        /\ \A x \in FrameDays(csv) :
              Cardinality({i \in 1..Len(csv) : q[i] = x})
                  = Cardinality({i \in 1..Len(csv) : csv[i] = x})
        /\ \A i \in 1..(Len(csv) - 1) : KeyLeq(q[i], q[i + 1])}

(* variant: the file is read when the latitude differs from that of the   *)
(* previous site                                                           *)
first_time_lat(df1, isite) ==
    isite = 0 \/ df1[isite + 1].Lat # df1[isite].Lat

(* lines 105-108: the file is read on the first pass and when the         *)
(* latitude or the longitude differs from that of the previous site       *)
first_time(df1, isite) ==
    \/ isite = 0
    \/ (isite > 0 /\ (\/ (df1[isite + 1].Lat # df1[isite].Lat
                            \/ df1[isite + 1].Lon # df1[isite].Lon)
                        \/ (df1[isite + 1].Lat # df1[isite].Lat
                            /\ df1[isite + 1].Lon # df1[isite].Lon)))

(* lines 120-123: the year of the oldest old collection date of the       *)
(* location, minus 5                                                      *)
first_year(df1, s) ==
    YearOf(MinOf({df1[i].Old : i \in {j \in 1..Len(df1) :
                     df1[j].Lat = s.Lat /\ df1[j].Lon = s.Lon}})) - 5

(* variant: the dates of the file are kept *)
read_series_raw(df1, files, s) ==
    LET f == files[<<s.Lat, s.Lon>>]
    IN  [first |-> f.t0, last |-> f.t0 + f.step * (f.n - 1),
         bg |-> BgRow, ev |-> << >>]

(* lines 115-125: the rows of the file of the location, with a new index  *)
(* pd.date_range(start = 1 January of first_year, periods = len(df2),     *)
(* freq = 'D') in place of the dates of the file                          *)
read_series(df1, files, s) ==
    LET f     == files[<<s.Lat, s.Lon>>]
        start == DaysFromCivil(first_year(df1, s), 1, 1)
    IN  [first |-> start, last |-> start + f.n - 1, bg |-> BgRow, ev |-> << >>]

(* lines 919-924: .loc[dt] raises KeyError when the day before a          *)
(* collection date is not in the index                                    *)
KeyError ==
    \E c \in Collects : (CollectionDate(c) - 1) \notin df.first..df.last

(* lines 137-153: the six rows of the site *)
SiteRows ==
    [day     |-> day_forcings(prepare_day),
     week    |-> other_period(prepare_period, "week"),
     month   |-> other_period(prepare_period, "month"),
     m3      |-> other_period(prepare_period, "3 months"),
     y5      |-> other_period(prepare_period, "5 years"),
     metrics |-> metrics(prepare_metrics)]

InitBatch ==
    /\ site = TheSite
    /\ df = Series(TheSite, << >>)
    /\ res = << >>
    /\ pc = "read"
    /\ \E csv \in [1..NumSites -> BatchSites] : \E files \in [BatchLocs -> Files] :
          arg = [df1 |-> csv, files |-> files]
    /\ ret = [isite |-> 0, reads |-> << >>, out |-> << >>]

(* lines 66-98: the site list is read and sorted by location *)
ReadSites ==
    /\ pc = "read"
    /\ \E q \in sort_values(arg.df1) : arg' = [arg EXCEPT !.df1 = q]
    /\ pc' = "loop"
    /\ UNCHANGED <<site, df, res, ret>>

(* lines 100-135: a pass of the loop starts with the site and, on the    *)
(* first pass of a location, with its file                                *)
SiteLoop ==
    /\ pc = "loop"
    /\ ret.isite < Len(arg.df1)
    /\ site' = arg.df1[ret.isite + 1]
    /\ df' = IF first_time(arg.df1, ret.isite)
             THEN read_series(arg.df1, arg.files, arg.df1[ret.isite + 1])
             ELSE df
    /\ ret' = [ret EXCEPT
                  !.reads = IF first_time(arg.df1, ret.isite)
                            THEN Append(ret.reads, ret.isite) ELSE ret.reads]
    /\ pc' = "site"
    /\ UNCHANGED <<res, arg>>

(* lines 137-153: the six rows of the site are filled; an exception is    *)
(* caught nowhere and ends main                                           *)
FillRows ==
    /\ pc = "site"
    /\ IF KeyError
       THEN /\ pc' = "aborted"
            /\ res' = res
       ELSE /\ pc' = "loop"
            /\ res' = Append(res, SiteRows)
    /\ ret' = [ret EXCEPT !.isite = ret.isite + 1]
    /\ UNCHANGED <<site, df, arg>>

(* lines 155 on: the rows are written to the output files after the loop *)
WriteFiles ==
    /\ pc = "loop"
    /\ ret.isite = Len(arg.df1)
    /\ ret' = [ret EXCEPT !.out = res]
    /\ pc' = "written"
    /\ UNCHANGED <<site, df, res, arg>>

NextBatch == ReadSites \/ SiteLoop \/ FillRows \/ WriteFiles

SpecBatch == InitBatch /\ [][NextBatch]_vars

---------------------------------------------------------------------------
(* The loop over the sites for lists of sites of three locations, two of  *)
(* them at the same latitude, whose files are complete and differ in      *)
(* their number of rows.                                                  *)

(* number of sites of these lists *)
LoopLen == 3

SiteLocs == BatchLocs \cup {<<-3800, 14600>>}

LoopSites ==
    {[Lat |-> l[1], Lon |-> l[2], Old |-> DaysFromCivil(2006, 7, 15),
      Modern |-> DaysFromCivil(2008, 3, 16)] : l \in SiteLocs}
    \cup {[Lat |-> -3800, Lon |-> 14500, Old |-> DaysFromCivil(2007, 3, 1),
           Modern |-> DaysFromCivil(2008, 3, 16)]}

LoopFiles ==
    [l \in SiteLocs |->
        [n |-> FullLen + (l[2] - 13000) \div 100,
         t0 |-> DaysFromCivil(2001, 1, 1), step |-> 1]]

(* main from its start: the list is sorted before the loop *)
InitSites ==
    /\ site = TheSite
    /\ df = Series(TheSite, << >>)
    /\ res = << >>
    /\ pc = "read"
    /\ \E csv \in [1..LoopLen -> LoopSites] : arg = [df1 |-> csv, files |-> LoopFiles]
    /\ ret = [isite |-> 0, reads |-> << >>, out |-> << >>]

SpecSites == InitSites /\ [][NextBatch]_vars

(* the loop of lines 100-153 entered with the sites in any order *)
InitLoop ==
    /\ site = TheSite
    /\ df = Series(TheSite, << >>)
    /\ res = << >>
    /\ pc = "loop"
    /\ \E csv \in [1..LoopLen -> LoopSites] : arg = [df1 |-> csv, files |-> LoopFiles]
    /\ ret = [isite |-> 0, reads |-> << >>, out |-> << >>]

NextLoop == SiteLoop \/ FillRows \/ WriteFiles

SpecLoop == InitLoop /\ [][NextLoop]_vars

---------------------------------------------------------------------------
(* Calls of day_forcings, other_period and metrics in any order on the    *)
(* series of a location, for sites of that location that differ in their  *)
(* collection dates (main, lines 137-153).  arg is the call that was made *)
(* last (the function, the record p given to it, the site and the series  *)
(* at the time of the call), ret the call before it with its result, res  *)
(* the record returned by the last call.  A record is changed in place by *)
(* a call, so the record given to a call is a new one or the one the last *)
(* call returned.                                                         *)

(* number of calls in a row *)
MaxCalls == 2

Kinds == {"day", "metrics"} \cup Whichs

CallSites ==
    [Lat : {-3800}, Old : OldDates,
     Modern : {DaysFromCivil(2008, 3, 16), DaysFromCivil(2008, 5, 31)}]

(* hot days without rain before the collection dates *)
CallSeries ==
    [first |-> DaysFromCivil(2001, 1, 1), last |-> SeriesEnd, bg |-> BgRow,
     ev |-> [d \in {DaysFromCivil(2006, 2, 27), DaysFromCivil(2006, 2, 28),
                    DaysFromCivil(2008, 3, 13), DaysFromCivil(2008, 3, 14)}
               |-> HotRow]]

(* the record of a site in the output frame of a function, lines 93-98 *)
new_record(kind) ==
    CASE kind = "day" -> prepare_day
      [] kind = "metrics" -> prepare_metrics
      [] OTHER -> prepare_period

(* lines 138-153: the call that fills the record *)
fill_record(kind, p) ==
    CASE kind = "day" -> day_forcings(p)
      [] kind = "metrics" -> metrics(p)
      [] OTHER -> other_period(p, kind)

NoCall == [kind |-> "none", p |-> << >>, site |-> TheSite, df |-> CallSeries,
           res |-> << >>]

InitCalls ==
    /\ site \in CallSites
    /\ df = CallSeries
    /\ res = << >>
    /\ pc = "call"
    /\ arg = [kind |-> "none", p |-> << >>, site |-> site, df |-> df, n |-> 0,
              df0 |-> df]
    /\ ret = NoCall

Call ==
    /\ pc = "call"
    /\ arg.n < MaxCalls
    /\ \E kind \in Kinds :
          \E p \in {new_record(kind)}
                   \cup (IF arg.kind = kind /\ arg.site = site THEN {res} ELSE {}) :
             /\ res' = fill_record(kind, p)
             /\ df' = IF kind = "metrics" THEN metrics_df(df) ELSE df
             /\ arg' = [arg EXCEPT !.kind = kind, !.p = p, !.site = site,
                                   !.df = df, !.n = arg.n + 1]
             /\ ret' = [kind |-> arg.kind, p |-> arg.p, site |-> arg.site,
                        df |-> arg.df, res |-> res]
    /\ UNCHANGED <<site, pc>>

(* lines 100-109: the next site is at the same location and differs in    *)
(* one of its collection dates; the series is kept                        *)
NextSite ==
    /\ pc = "call"
    /\ arg.n >= 1
    /\ arg.site = site
    /\ \E s \in CallSites :
          /\ (s.Old = site.Old) # (s.Modern = site.Modern)
          /\ site' = s
    /\ UNCHANGED <<df, res, pc, arg, ret>>

NextCalls == Call \/ NextSite

SpecCalls == InitCalls /\ [][NextCalls]_vars

---------------------------------------------------------------------------
(* The five lead up years of lines 1309-1331 and 1196-1218, applied to    *)
(* the frame dfr of a five year period and to its season rows: arg is the *)
(* frame and the last day of dfr, ret the five slices y1..y5.             *)

(* the last days of the periods: every 23rd day from 5 January 2006 on,   *)
(* so that the boundaries fall before and after the leap days             *)
SliceLasts == {DaysFromCivil(2006, 1, 5) + 23 * k : k \in 0..39}

(* line 1305: dfr for the period ending on the row `last` *)
FiveYearFrame(last) ==
    Loc(DfIndex, DateMinus(last, 5 * YearSecs) * SecPerDay, last * SecPerDay)

InitSlices ==
    /\ site = TheSite
    /\ df = Series(TheSite, << >>)
    /\ res = prepare_new_df
    /\ pc = "call"
    /\ \E last \in SliceLasts :
          \E f \in {FiveYearFrame(last)}
                   \cup {get_season(lat, FiveYearFrame(last), season_date(last)) :
                            lat \in Lats} :
             arg = [frame |-> f, last |-> last]
    /\ ret = << >>

YearSlices ==
    /\ pc = "call"
    /\ ret' = year_slices(arg.frame, arg.last)
    /\ pc' = "done"
    /\ UNCHANGED <<site, df, res, arg>>

NextSlices == YearSlices

SpecSlices == InitSlices /\ [][NextSlices]_vars

---------------------------------------------------------------------------
(* Reference notions for the lookback windows.                            *)

PeriodRecs == <<res.week, res.month, res.m3, res.y5>>

Computed(rec, c) == rec[c].dfr # NoSpan

(* the days of a period whose rows are consecutive days *)
WindowDays(rec, c) == rec[c].dfr.first..rec[c].dfr.last

StatCols == {"tmdw", "tmin", "tmax", "vprp3pm"}

MinField(r, col) ==
    CASE col = "tmdw" -> r.min_tmdw [] col = "tmin" -> r.min_tmin
      [] col = "tmax" -> r.min_tmax [] col = "vprp3pm" -> r.min_vpd

MaxField(r, col) ==
    CASE col = "tmdw" -> r.max_tmdw [] col = "tmin" -> r.max_tmin
      [] col = "tmax" -> r.max_tmax [] col = "vprp3pm" -> r.max_vpd

AvgField(r, col) ==
    CASE col = "tmdw" -> r.avg_tmdw [] col = "tmin" -> r.avg_tmin
      [] col = "tmax" -> r.avg_tmax [] col = "vprp3pm" -> r.avg_vpd

VarField(r, col) ==
    CASE col = "tmdw" -> r.var_tmdw [] col = "tmin" -> r.var_tmin
      [] col = "tmax" -> r.var_tmax [] col = "vprp3pm" -> r.var_vpd

(* a / b <= c / d for positive b and d *)
RatLeq(x, y) == x[2] * y[3] <= y[2] * x[3]

DaySum(col, D) == FnSum([d \in D |-> Val(col, d)])

DaySumSq(col, D) == FnSum([d \in D |-> Val(col, d) * Val(col, d)])

(* the date k calendar months before day d, the day of the month clipped  *)
(* to the length of the target month                                      *)
CalShiftMonths(d, k) ==
    LET c   == CivilFromDays(d)
        mm  == c.year * 12 + (c.month - 1) - k
        y   == mm \div 12
        m   == (mm % 12) + 1
        ny  == IF m = 12 THEN y + 1 ELSE y
        nm  == IF m = 12 THEN 1 ELSE m + 1
        len == DaysFromCivil(ny, nm, 1) - DaysFromCivil(y, m, 1)
    IN  DaysFromCivil(y, m, IF c.day > len THEN len ELSE c.day)

---------------------------------------------------------------------------
(* C1: in a year slice the spell count is the number of maximal runs of   *)
(* at least 3 consecutive excess days, the mean length is the average and *)
(* the max length the maximum of the lengths of those runs; shorter runs  *)
(* contribute to none of the three.                                       *)

C1_YearSpellMetrics ==
    pc = "done" =>
        LET Q == ArgSpells
            h == ret.heatwave
            k == arg.i + 1
        IN  /\ h.totalN[k] = Num(Cardinality(Q), 1)
            /\ Q # {} =>
                 /\ h.max[k] = Num(LongestLen(Q), 1)
                 /\ IsNum(h.avg[k])
                 /\ h.avg[k][2] * Cardinality(Q) = TotalLen(Q) * h.avg[k][3]

(* excess on 4 days, not on the next, then on 2 days: count 1, mean 4, max 4 *)
C1_Witness ==
    /\ pc = "done"
    /\ Len(arg.frame) = 7
    /\ arg.S = (SliceStart..(SliceStart + 3)) \cup {SliceStart + 5, SliceStart + 6}
    /\ ret.heatwave.totalN[arg.i + 1] = Num(1, 1)
    /\ ret.heatwave.avg[arg.i + 1] = Num(4, 1)
    /\ ret.heatwave.max[arg.i + 1] = Num(4, 1)

---------------------------------------------------------------------------
(* C2: at every date d of the lookback, the excess holds exactly when the *)
(* trailing 3 day mean ending at d is strictly greater than the trailing  *)
(* 30 day mean ending 3 days before d, a baseline made only of days that  *)
(* precede the 3 day window.                                              *)

GreaterMean(a, b) == a.sum * b.cnt > b.sum * a.cnt

BaselineBefore(col, d) == running_mean(col, 30, d - 3)

C2_ExcessBaseline ==
    pc = "done" =>
        \A c \in Collects : \A d \in WindowDays(res.metrics, c) :
            /\ excess("tmdw", d)
                 <=> GreaterMean(running_mean("tmdw", 3, d),
                                 BaselineBefore("tmdw", d))
            /\ excess("vprp3pm", d)
                 <=> GreaterMean(running_mean("vprp3pm", 3, d),
                                 BaselineBefore("vprp3pm", d))

---------------------------------------------------------------------------
(* C3: for every strictly ascending list of positions, consecutive        *)
(* returns, in ascending order, exactly the maximal runs of positions     *)
(* with adjacent gap 1 that hold more than one position; the empty list   *)
(* gives the empty list.                                                  *)

ArgSet == {arg[k] : k \in 1..Len(arg)}

RefRuns ==
    LET Q  == RunsAtLeast(ArgSet, ArgSet, 2)
        st == SortedSeq({r[1] : r \in Q})
    IN  [k \in 1..Len(st) |->
            LET r == CHOOSE q \in Q : q[1] = st[k]
            IN  [j \in 1..RunLen(r) |-> r[1] + j - 1]]

C3_ConsecutiveRuns ==
    pc = "done" =>
        /\ ret = RefRuns
        /\ \A k \in 1..Len(ret) : \A j \in 1..Len(ret[k]) : ret[k][j] \in ArgSet
        /\ \A k, l \in 1..Len(ret) : \A j \in 1..Len(ret[k]) :
              \A m \in 1..Len(ret[l]) : ret[k][j] = ret[l][m] => k = l
        /\ (arg = << >> => ret = << >>)

C3_Witness ==
    /\ pc = "done"
    /\ arg = <<1, 2, 3, 7, 8, 10>>
    /\ ret = <<<<1, 2, 3>>, <<7, 8>>>>

---------------------------------------------------------------------------
(* C4: a gap between two season periods always breaks a run: every run    *)
(* counted in the interannual in-season metrics is made of calendar       *)
(* consecutive days, so an interannual max length of m days implies m     *)
(* consecutive in-season days of the lookback on which the predicate      *)
(* holds.                                                                 *)

SeasonDays(c) ==
    {d \in WindowDays(res.metrics, c) :
        MonthOf(d) \in season_months(site.Lat, CollectionDate(c))}

HasCalendarRun(S, m) == \E a \in S : \A k \in 0..(m - 1) : (a + k) \in S

C4_SeasonGapBreaksRuns ==
    pc = "done" =>
        \A c \in Collects :
            LET r == res.metrics[c]
                D == SeasonDays(c)
            IN  /\ r.no_ppt.inter_max # NaN =>
                     HasCalendarRun({d \in D : rainless(d)},
                                    r.no_ppt.inter_max[2])
                /\ r.heatwave.inter_max # NaN =>
                     HasCalendarRun({d \in D : excess("tmdw", d)},
                                    r.heatwave.inter_max[2])
                /\ r.dry_spell.inter_max # NaN =>
                     HasCalendarRun({d \in D : excess("vprp3pm", d)},
                                    r.dry_spell.inter_max[2])

---------------------------------------------------------------------------
(* C5 as stated: when a year slice holds no qualifying run, the spell     *)
(* count, the mean length, the max length and the date range of that      *)
(* slice all keep the no-value marker.                                    *)

C5_NoRunKeepsNaN ==
    pc = "done" =>
        LET h == ret.heatwave
            k == arg.i + 1
        IN  ArgSpells = {} =>
              /\ h.totalN[k] = NaN
              /\ h.avg[k] = NaN
              /\ h.max[k] = NaN
              /\ h.dates[k] = NaN

(* C5 as amended: when a year slice holds no qualifying run, the spell    *)
(* count of that slice is written as 0, and the mean length, the max      *)
(* length, the date range and the most recent run keep the no-value       *)
(* marker; the fields of the other slices are left as they were.          *)

C5_NoRunCountZero ==
    pc = "done" =>
        LET h == ret.heatwave
            k == arg.i + 1
        IN  ArgSpells = {} =>
              /\ h.totalN[k] = Num(0, 1)
              /\ h.avg[k] = NaN
              /\ h.max[k] = NaN
              /\ h.dates[k] = NaN
              /\ h.recent = NaN
              /\ \A j \in 1..5 : j # k => h.totalN[j] = NaN

(* a slice whose only run of flagged days is 2 days long: no spell *)
C5_Witness ==
    /\ pc = "done"
    /\ ArgSpells = {}
    /\ Cardinality(arg.S) = 2
    /\ ArgDryRuns # {}
    /\ ret.heatwave.totalN[arg.i + 1] = Num(0, 1)

---------------------------------------------------------------------------
(* C6: the most recent run field is written if and only if the slice is   *)
(* y1 and holds more than one qualifying run, and then it is the first    *)
(* and last date of the chronologically last run of y1 (runs of at least  *)
(* 3 days for heatwaves and dry spells, of at least 2 days without rain). *)

C6_MostRecentRun ==
    pc = "done" =>
        /\ (ret.heatwave.recent # NaN)
              <=> (arg.i = 0 /\ Cardinality(ArgSpells) > 1)
        /\ ret.heatwave.recent # NaN =>
              ret.heatwave.recent
                 = Dates(LastRun(ArgSpells)[1], LastRun(ArgSpells)[2])
        /\ (ret.no_ppt.recent # NaN)
              <=> (arg.i = 0 /\ Cardinality(ArgDryRuns) > 1)
        /\ ret.no_ppt.recent # NaN =>
              ret.no_ppt.recent
                 = Dates(LastRun(ArgDryRuns)[1], LastRun(ArgDryRuns)[2])

(* y1 with two heatwaves: the most recent one is reported *)
C6_Witness ==
    /\ pc = "done"
    /\ arg.i = 0
    /\ Cardinality(ArgSpells) = 2
    /\ ret.heatwave.recent = Dates(SliceStart + 4, SliceStart + 6)

(* y1 with exactly one heatwave: the field stays absent *)
C6_WitnessOne ==
    /\ pc = "done"
    /\ arg.i = 0
    /\ Cardinality(ArgSpells) = 1
    /\ ret.heatwave.recent = NaN
    /\ ret.heatwave.max[1] # NaN

---------------------------------------------------------------------------
(* C7: in every non-day window, for tmdw, tmin, tmax and vpd, the         *)
(* reported minimum is the smallest and the reported maximum the largest  *)
(* daily value of the window, so minimum <= average <= maximum.           *)

C7_WindowExtremes ==
    \A k \in 1..4 : \A c \in Collects :
        Computed(PeriodRecs[k], c) =>
            \A col \in StatCols :
                LET r == PeriodRecs[k][c]
                    V == {Val(col, d) : d \in WindowDays(PeriodRecs[k], c)}
                IN  /\ MinField(r, col) = Num(MinOf(V), 1)
                    /\ MaxField(r, col) = Num(MaxOf(V), 1)
                    /\ RatLeq(MinField(r, col), AvgField(r, col))
                    /\ RatLeq(AvgField(r, col), MaxField(r, col))

---------------------------------------------------------------------------
(* C8: whenever the mean of a variable over the window is exactly zero,   *)
(* the variability field keeps the no-value marker; otherwise it is the   *)
(* population standard deviation divided by the mean.                     *)

C8_VariabilityGuard ==
    \A k \in 1..4 : \A c \in Collects :
        Computed(PeriodRecs[k], c) =>
            \A col \in StatCols :
                LET r  == PeriodRecs[k][c]
                    D  == WindowDays(PeriodRecs[k], c)
                    n  == Cardinality(D)
                    sm == DaySum(col, D)
                IN  IF sm = 0 THEN VarField(r, col) = NaN
                    ELSE VarField(r, col)
                           = Cv(n * DaySumSq(col, D) - sm * sm, sm)

---------------------------------------------------------------------------
(* C9: for both collection dates, every lookback window (week, month,     *)
(* quarter, five years, and the five years of the spell metrics) has the  *)
(* day before the collection date as its last day and does not hold the   *)
(* collection date; the day window reports the five values of that day.   *)

EndsOnPreviousDay(span, ref) ==
    /\ span.last = ref - 1
    /\ span.first <= span.last
    /\ ref \notin span.first..span.last

C9_WindowEnd ==
    \A c \in Collects :
        LET ref == CollectionDate(c)
        IN  /\ res.day[c].dt # NaN =>
                /\ res.day[c].dt = Dates(ref - 1, ref - 1)
                /\ res.day[c].tmdw = Num(Row(ref - 1).tmdw, 1)
                /\ res.day[c].tmin = Num(Row(ref - 1).tmin, 1)
                /\ res.day[c].tmax = Num(Row(ref - 1).tmax, 1)
                /\ res.day[c].vpd = Num(Row(ref - 1).vprp3pm, 1)
                /\ res.day[c].ppt = Num(Row(ref - 1).pre, 1)
            /\ \A k \in 1..4 :
                  Computed(PeriodRecs[k], c) =>
                      EndsOnPreviousDay(PeriodRecs[k][c].dfr, ref)
            /\ Computed(res.metrics, c) =>
                  EndsOnPreviousDay(res.metrics[c].dfr, ref)

(* all windows computed, for a series whose day before the old           *)
(* collection date differs from the days around it                        *)
C9_Witness ==
    /\ pc = "done"
    /\ (site.Old - 1) \in DOMAIN df.ev
    /\ (site.Old - 2) \notin DOMAIN df.ev
    /\ res.day["Old"].tmax = Num(Row(site.Old - 1).tmax, 1)
    /\ res.day["Old"].tmax # Num(Row(site.Old).tmax, 1)

---------------------------------------------------------------------------
(* C10 as stated: the week window holds 7 days and the month, quarter and *)
(* five-year windows start on the window end shifted back by 1 and 3      *)
(* calendar months and 5 calendar years.                                  *)

C10_CalendarWindows ==
    \A c \in Collects :
        LET dt2 == CollectionDate(c) - 1
        IN  /\ Computed(res.week, c) => res.week[c].dfr.n = 7
            /\ Computed(res.month, c) =>
                  res.month[c].dfr.first = CalShiftMonths(dt2, 1)
            /\ Computed(res.m3, c) =>
                  res.m3[c].dfr.first = CalShiftMonths(dt2, 3)
            /\ Computed(res.y5, c) =>
                  res.y5[c].dfr.first = CalShiftMonths(dt2, 60)
            /\ Computed(res.metrics, c) =>
                  res.metrics[c].dfr.first = CalShiftMonths(dt2, 60)

(* C10 as amended: the week window holds exactly 7 days, the month window *)
(* exactly 31 days, the quarter window exactly 92 days and the five-year  *)
(* windows exactly 1827 days, all consecutive and ending on the window    *)
(* end: the start is the window end minus 6, 30, 91 and 1826 days, the    *)
(* whole days of 1 and 3 mean months and of 5 mean years, whatever the    *)
(* calendar in between.                                                   *)

HoldsDays(span, dt2, n) ==
    /\ span.n = n
    /\ span.last = dt2
    /\ span.first = dt2 - (n - 1)

C10_FixedLengthWindows ==
    \A c \in Collects :
        LET dt2 == CollectionDate(c) - 1
        IN  /\ Computed(res.week, c) => HoldsDays(res.week[c].dfr, dt2, 7)
            /\ Computed(res.month, c) => HoldsDays(res.month[c].dfr, dt2, 31)
            /\ Computed(res.m3, c) => HoldsDays(res.m3[c].dfr, dt2, 92)
            /\ Computed(res.y5, c) => HoldsDays(res.y5[c].dfr, dt2, 1827)
            /\ Computed(res.metrics, c) =>
                  HoldsDays(res.metrics[c].dfr, dt2, 1827)

(* all windows computed for a window end of 28 February: one calendar     *)
(* month back is 28 January, the month window starts on 29 January        *)
C10_Witness ==
    /\ pc = "done"
    /\ site.Old = DaysFromCivil(2006, 3, 1)
    /\ res.month["Old"].dfr.first = DaysFromCivil(2006, 1, 29)
    /\ CalShiftMonths(site.Old - 1, 1) = DaysFromCivil(2006, 1, 28)
    /\ res.y5["Modern"].dfr.n = 1827

---------------------------------------------------------------------------
(* C11: with window N, the smoothed value at every position i of the      *)
(* signal is the arithmetic mean of the signal over the positions         *)
(* max(first, i - N + 1) .. i: the first N - 1 values average the days    *)
(* available and are never absent, and the output has the length and the  *)
(* dates of the input.                                                    *)

C11_TrailingMean ==
    pc = "done" =>
        /\ Len(ret) = Len(DfIndex)
        /\ \A i \in 1..Len(ret) :
              LET lo == IF i - arg + 1 > 1 THEN i - arg + 1 ELSE 1
                  D  == {DfIndex[j] : j \in lo..i}
              IN  /\ ret[i].cnt = Cardinality(D)
                  /\ ret[i].cnt >= 1
                  /\ ret[i].sum = DaySum("tmdw", D)

(* N = 3 over [1, 2, 3, 4] gives [1, 3/2, 6/3, 9/3] *)
C11_Witness ==
    /\ pc = "done"
    /\ arg = 3
    /\ [i \in 1..Len(DfIndex) |-> Val("tmdw", DfIndex[i])] = <<1, 2, 3, 4>>
    /\ ret = <<[sum |-> 1, cnt |-> 1], [sum |-> 3, cnt |-> 2],
               [sum |-> 6, cnt |-> 3], [sum |-> 9, cnt |-> 3]>>

---------------------------------------------------------------------------
(* Reference notions for the seasons.                                     *)

(* the rows of a frame whose month belongs to the set S, in order *)
RowsOfMonths(frame, S) == SelectSeq(frame, LAMBDA d : MonthOf(d) \in S)

Tropical(lat) == -TropicLat < lat /\ lat < TropicLat

DrySeason == 5..10

WetSeason == {11, 12, 1, 2, 3, 4}

MidSeasons == {{3, 4, 5}, {6, 7, 8}, {9, 10, 11}, {12, 1, 2}}

BandSeasons(lat) == IF Tropical(lat) THEN {DrySeason, WetSeason} ELSE MidSeasons

---------------------------------------------------------------------------
(* C12: for every latitude strictly between -23.45 and 23.45, a date of a *)
(* month in 5..10 selects the rows of the dry season, months 5..10, and a *)
(* date of any other month the rows of the wet season, months 11, 12, 1,  *)
(* 2, 3, 4.                                                               *)

C12_TropicalSeasons ==
    (pc = "done" /\ Tropical(site.Lat)) =>
        ret = RowsOfMonths(arg.frame,
                 IF MonthOf(arg.dt) \in DrySeason THEN DrySeason ELSE WetSeason)

(* latitude -10 and a date of October: the dry season *)
C12_Witness ==
    /\ pc = "done"
    /\ site.Lat = -1000
    /\ MonthOf(arg.dt) = 10
    /\ Len(arg.frame) = 365
    /\ {MonthOf(d) : d \in FrameDays(ret)} = 5..10

---------------------------------------------------------------------------
(* C13: for every latitude at or beyond 23.45 degrees north or south, the *)
(* rows selected are those of autumn {3,4,5}, winter {6,7,8}, spring      *)
(* {9,10,11} or summer {12,1,2}, namely of the set that holds the month   *)
(* of the date.                                                           *)

C13_MidLatitudeSeasons ==
    (pc = "done" /\ ~Tropical(site.Lat)) =>
        \E S \in MidSeasons :
            /\ MonthOf(arg.dt) \in S
            /\ ret = RowsOfMonths(arg.frame, S)

(* latitude -38 and a date of July: winter *)
C13_Witness ==
    /\ pc = "done"
    /\ site.Lat = -3800
    /\ MonthOf(arg.dt) = 7
    /\ Len(arg.frame) = 365
    /\ {MonthOf(d) : d \in FrameDays(ret)} = {6, 7, 8}

(* latitude 23.45 itself is not tropical: a date of April selects autumn *)
C13_WitnessEdge ==
    /\ pc = "done"
    /\ site.Lat = TropicLat
    /\ MonthOf(arg.dt) = 4
    /\ Len(arg.frame) = 365
    /\ {MonthOf(d) : d \in FrameDays(ret)} = {3, 4, 5}

---------------------------------------------------------------------------
(* C14: for every latitude and date exactly one season of the latitude    *)
(* band holds the month of the date, and the rows returned are exactly    *)
(* the rows of the frame whose month belongs to that season: no row of    *)
(* another month is kept and no row of the season is lost.                *)

C14_SeasonTotality ==
    pc = "done" =>
        LET chosen == {S \in BandSeasons(site.Lat) : MonthOf(arg.dt) \in S}
        IN  /\ Cardinality(chosen) = 1
            /\ \A S \in chosen :
                  /\ FrameDays(ret) = {d \in FrameDays(arg.frame) : MonthOf(d) \in S}
                  /\ Len(ret) = Cardinality(FrameDays(ret))
                  /\ \A i \in 1..(Len(ret) - 1) : ret[i] < ret[i + 1]

(* a frame from November to February and a date of January: at latitude   *)
(* -38 the summer rows are kept, those of November are not                *)
C14_Witness ==
    /\ pc = "done"
    /\ site.Lat = -3800
    /\ MonthOf(arg.dt) = 1
    /\ Len(arg.frame) < 365
    /\ Len(ret) > 0
    /\ Len(ret) < Len(arg.frame)
    /\ {MonthOf(d) : d \in FrameDays(ret)} = {12, 1, 2}

---------------------------------------------------------------------------
(* the season of the latitude band that holds the month of day d *)
SeasonOf(lat, d) == CHOOSE S \in BandSeasons(lat) : MonthOf(d) \in S

SeqToSet(q) == {q[i] : i \in 1..Len(q)}

---------------------------------------------------------------------------
(* C15: the season that pools the five year lookback, in metrics and in   *)
(* the 5 years period, is the season of the latitude band that holds the  *)
(* month of the collection date itself, not that of the last day of the   *)
(* lookback, also when the collection date is the first day of a month.   *)

C15_SeasonOfReferenceDate ==
    \A c \in Collects :
        /\ pc = "done" =>
              SeqToSet(res.metrics[c].season)
                  = SeasonOf(site.Lat, CollectionDate(c))
        /\ pc \in {"metrics", "done"} =>
              SeqToSet(res.y5[c].season)
                  = SeasonOf(site.Lat, CollectionDate(c))

(* collected on 1 March at latitude -38: autumn, while the last day of    *)
(* the lookback is a day of summer                                        *)
C15_Witness ==
    /\ pc = "done"
    /\ site.Lat = -3800
    /\ StrfDate(site.Old) = <<1, 3, 2006>>
    /\ SeasonOf(site.Lat, res.metrics["Old"].dfr.last) = {12, 1, 2}
    /\ res.metrics["Old"].season = <<3, 4, 5>>
    /\ res.y5["Old"].season = <<3, 4, 5>>

---------------------------------------------------------------------------
(* C16 as stated: the season of the spell metrics is the season of the    *)
(* day after the collection date, so that a collection date on the last   *)
(* day of a month gives the season of the following month.                *)

C16_SeasonOfNextDay ==
    pc = "done" =>
        \A c \in Collects :
            SeqToSet(res.metrics[c].season)
                = SeasonOf(site.Lat, CollectionDate(c) + 1)

(* C16 as amended: the season of the spell metrics is the season of the   *)
(* day after the last day of the lookback, which is the collection date   *)
(* itself, so that a collection date on the last day of a month gives the *)
(* season of that month.                                                  *)

C16_SeasonOfDayAfterLookback ==
    pc = "done" =>
        \A c \in Collects :
            LET last == res.metrics[c].dfr.last
            IN  /\ last + 1 = CollectionDate(c)
                /\ SeqToSet(res.metrics[c].season) = SeasonOf(site.Lat, last + 1)
                /\ MonthOf(last + 2) # MonthOf(last + 1) =>
                      MonthOf(last + 1) \in SeqToSet(res.metrics[c].season)

(* collected on 31 May at latitude -38: autumn, not the winter of 1 June *)
C16_Witness ==
    /\ pc = "done"
    /\ site = EdgeSite
    /\ SeasonOf(site.Lat, site.Modern + 1) = {6, 7, 8}
    /\ res.metrics["Modern"].season = <<3, 4, 5>>

---------------------------------------------------------------------------
(* Reference notions for the precipitation.                               *)

(* the days of lead up year i of the lookback of the spell metrics: y1 is *)
(* the last year, whole days only                                         *)
LookbackSlice(c, i) ==
    LET first == res.metrics[c].dfr.first
        last  == res.metrics[c].dfr.last
        lo    == IF i = 5 THEN first ELSE last - (i * YearSecs) \div SecPerDay
        hi    == IF i = 1 THEN last
                 ELSE last - ((i - 1) * YearSecs + SecPerDay - 1) \div SecPerDay
    IN  lo..hi

DryDays(D) == {d \in D : Val("pre", d) <= BoM_thr}

WetDays(D) == {d \in D : Val("pre", d) > BoM_thr}

(* the maximal runs of at least n consecutive days of a set T of days *)
RunsOf(T, n) ==
    {r \in T \X T :
        /\ r[2] - r[1] + 1 >= n
        /\ \A d \in r[1]..r[2] : d \in T
        /\ (r[1] - 1) \notin T
        /\ (r[2] + 1) \notin T}

DaySeqSum(col, lo, hi) == SeqSum([i \in 1..(hi - lo + 1) |-> Val(col, lo + i - 1)])

---------------------------------------------------------------------------
(* C17: a day is rainless when its precipitation is at most 0.2 mm, with  *)
(* no smoothing; in every year slice the max length is the length of the  *)
(* longest run of at least 2 consecutive rainless days and the dates are  *)
(* those of such a run, both absent when there is no such run; the record *)
(* of the rainless spells holds the yearly max and dates, the most recent *)
(* run and the pooled max only.                                           *)

C17_RainlessSpells ==
    pc = "done" =>
        \A c \in Collects :
            LET n == res.metrics[c].no_ppt
            IN  /\ DOMAIN n = {"max", "dates", "recent", "inter_max"}
                /\ \A i \in Yrs :
                      LET Q == RunsOf(DryDays(LookbackSlice(c, i)), 2)
                      IN  /\ Q = {} => n.max[i] = NaN /\ n.dates[i] = NaN
                          /\ Q # {} =>
                                /\ n.max[i] = Num(LongestLen(Q), 1)
                                /\ \E r \in Q :
                                      /\ RunLen(r) = LongestLen(Q)
                                      /\ n.dates[i] = Dates(r[1], r[2])

(* the two days before the old collection date had 0.2 mm each: a run of  *)
(* 2 days in y1 of the old date, and in an earlier year of the modern one *)
C17_Witness ==
    /\ pc = "done"
    /\ Val("pre", site.Old - 1) = BoM_thr
    /\ Val("pre", site.Old - 2) = BoM_thr
    /\ res.metrics["Old"].no_ppt.max[1] = Num(2, 1)
    /\ res.metrics["Old"].no_ppt.dates[1] = Dates(site.Old - 2, site.Old - 1)
    /\ \E i \in 2..5 : res.metrics["Modern"].no_ppt.max[i] = Num(2, 1)

(* one isolated rainless day gives no value *)
C17_WitnessSingle ==
    /\ pc = "done"
    /\ Val("pre", site.Old - 1) = BoM_thr
    /\ Val("pre", site.Old - 2) > BoM_thr
    /\ res.metrics["Old"].no_ppt.max[1] = NaN

---------------------------------------------------------------------------
(* C18: in every window the minimum of the precipitation is the smallest  *)
(* amount of the days above the 0.2 mm threshold and the range is the     *)
(* maximum minus that minimum, also when the window holds rainless days,  *)
(* while the maximum and the total are taken over all days.               *)

---------------------------------------------------------------------------
(* Reference notions for the loop over the sites.                         *)

FileOf(s) == arg.files[<<s.Lat, s.Lon>>]

(* the index given to the file of the location of site s holds the day    *)
(* before both collection dates                                           *)
Covered(s) ==
    LET start == DaysFromCivil(first_year(arg.df1, s), 1, 1)
    IN  /\ s.Old - 1 \in start..(start + FileOf(s).n - 1)
        /\ s.Modern - 1 \in start..(start + FileOf(s).n - 1)

(* the dates of the file are daily, contiguous and ascending *)
DailyDates(f) == f.step = 1

---------------------------------------------------------------------------
(* C19: a site whose computation fails is skipped and every other site is *)
(* still processed and written: the loop is never left before its end,    *)
(* and the files hold a row for every site whose dates are in its series. *)

C19_FailureIsolation ==
    /\ pc # "aborted"
    /\ pc = "written" =>
          \A i \in 1..Len(arg.df1) :
              Covered(arg.df1[i]) => Len(ret.out) >= i
    /\ pc = "written" =>
          Len(ret.out) = Cardinality({i \in 1..Len(arg.df1) : Covered(arg.df1[i])})

---------------------------------------------------------------------------
(* C20 as stated: a series whose dates are not daily, contiguous and      *)
(* ascending makes the computation of the site fail: no row is ever       *)
(* computed from such a series.                                           *)

C20_MalformedFailsFast ==
    pc \in {"loop", "written"} =>
        \A i \in 1..Len(res) : DailyDates(FileOf(arg.df1[i]))

(* C20 as amended: the dates of the file are never examined: the series   *)
(* of every pass gets the daily index that starts on 1 January of the     *)
(* year of the oldest old collection date of the location minus 5 and has *)
(* one day per row of the file, whatever the dates of the file are, and   *)
(* a pass fails only when a day before a collection date is not in that   *)
(* index.                                                                 *)

C20_DatesReplaced ==
    (pc = "site" \/ (pc \in {"loop", "written", "aborted"} /\ ret.isite > 0)) =>
        /\ df.first = DaysFromCivil(first_year(arg.df1, site), 1, 1)
        /\ df.last - df.first + 1 = FileOf(site).n
        /\ pc = "aborted" => ~Covered(site)
        /\ pc \in {"loop", "written"} => Covered(site)
        /\ \A i \in 1..Len(res) : Covered(arg.df1[i])

(* the rows of a site are written although the dates of its file are not  *)
(* daily and start in 1970                                                *)
C20_Witness ==
    /\ pc = "written"
    /\ Len(ret.out) = NumSites
    /\ \E i \in 1..Len(arg.df1) :
          /\ ~DailyDates(FileOf(arg.df1[i]))
          /\ FileOf(arg.df1[i]).t0 = 0

---------------------------------------------------------------------------
(* C22: the five year slices of a lookback, and of its season rows, are   *)
(* pairwise disjoint (no row, in particular no row on a boundary, is in   *)
(* two slices), together they hold every row of the frame, and they are   *)
(* ordered in time: y1 ends on the last row of the frame, y5 starts on    *)
(* its first row and every row of a slice is later than every row of the  *)
(* next slice.                                                            *)

C22_YearSlices ==
    pc = "done" =>
        /\ Len(ret) = 5
        /\ \A i, j \in Yrs :
              i # j => FrameDays(ret[i]) \cap FrameDays(ret[j]) = {}
        /\ UNION {FrameDays(ret[i]) : i \in Yrs} = FrameDays(arg.frame)
        /\ Flatten(<<ret[5], ret[4], ret[3], ret[2], ret[1]>>) = arg.frame
        /\ \A i \in 1..4 :
              \A d \in FrameDays(ret[i]) : \A e \in FrameDays(ret[i + 1]) : e < d
        /\ ret[1] # << >> /\ ret[1][Len(ret[1])] = arg.frame[Len(arg.frame)]
        /\ ret[5] # << >> /\ ret[5][1] = arg.frame[1]

(* a whole lookback of 1827 days: the boundary between y1 and y2 lies     *)
(* between the rows of day last - 366 and last - 365                      *)
C22_Witness ==
    /\ pc = "done"
    /\ Len(arg.frame) = 1827
    /\ Len(ret[1]) = 366
    /\ ret[1][1] = arg.last - 365
    /\ ret[2][Len(ret[2])] = arg.last - 366
    /\ Len(ret[2]) = 365

(* the season rows of a lookback: the slices hold rows of several years *)
C22_WitnessSeason ==
    /\ pc = "done"
    /\ Len(arg.frame) < 1827
    /\ \A i \in Yrs : ret[i] # << >>
    /\ YearOf(ret[1][1]) # YearOf(ret[3][1])

---------------------------------------------------------------------------
(* C23: whenever the max length of a year slice is reported, the date     *)
(* range reported with it is the first and the last date of a run of that *)
(* slice whose length is the max length: last date - first date + 1 day   *)
(* is the max length and both dates are dates of the slice.               *)

C23_LongestRunDates ==
    pc = "done" =>
        LET k == arg.i + 1
        IN  /\ ret.heatwave.max[k] # NaN =>
                  \E r \in ArgSpells :
                      /\ ret.heatwave.dates[k] = Dates(r[1], r[2])
                      /\ r[2] - r[1] + 1 = ret.heatwave.max[k][2]
                      /\ r[1] \in ArgDays /\ r[2] \in ArgDays
            /\ ret.no_ppt.max[k] # NaN =>
                  \E r \in ArgDryRuns :
                      /\ ret.no_ppt.dates[k] = Dates(r[1], r[2])
                      /\ r[2] - r[1] + 1 = ret.no_ppt.max[k][2]
                      /\ r[1] \in ArgDays /\ r[2] \in ArgDays

(* a run of 2 days, a gap, then a run of 4 days that ends before the end  *)
(* of the slice: max length 4 and the dates of those 4 days               *)
C23_Witness ==
    /\ pc = "done"
    /\ Len(arg.frame) = 7
    /\ arg.S = {SliceStart, SliceStart + 1} \cup ((SliceStart + 3)..(SliceStart + 6))
    /\ ret.heatwave.max[arg.i + 1] = Num(4, 1)
    /\ ret.heatwave.dates[arg.i + 1] = Dates(SliceStart + 3, SliceStart + 6)
    /\ ret.no_ppt.max[arg.i + 1] = Num(4, 1)

(* the longest run ends before the last row of the slice *)
C23_WitnessInside ==
    /\ pc = "done"
    /\ Len(arg.frame) = 7
    /\ arg.S = (SliceStart + 1)..(SliceStart + 3)
    /\ ret.heatwave.dates[arg.i + 1] = Dates(SliceStart + 1, SliceStart + 3)

---------------------------------------------------------------------------
(* C26: when several runs of a year slice have the maximal length, the    *)
(* date range reported is that of the chronologically first of them.      *)

EarliestLongest(Q) ==
    CHOOSE r \in Q :
        /\ RunLen(r) = LongestLen(Q)
        /\ \A q \in Q : RunLen(q) = LongestLen(Q) => r[1] <= q[1]

C26_EarliestOfTies ==
    pc = "done" =>
        LET k == arg.i + 1
        IN  /\ ret.heatwave.dates[k] # NaN =>
                  ret.heatwave.dates[k]
                      = Dates(EarliestLongest(ArgSpells)[1],
                              EarliestLongest(ArgSpells)[2])
            /\ ret.no_ppt.dates[k] # NaN =>
                  ret.no_ppt.dates[k]
                      = Dates(EarliestLongest(ArgDryRuns)[1],
                              EarliestLongest(ArgDryRuns)[2])

(* two runs of 3 days in a slice of 7 days: the dates of the first one *)
C26_Witness ==
    /\ pc = "done"
    /\ Len(arg.frame) = 7
    /\ arg.S = (SliceStart..(SliceStart + 2)) \cup ((SliceStart + 4)..(SliceStart + 6))
    /\ Cardinality(ArgSpells) = 2
    /\ ret.heatwave.max[arg.i + 1] = Num(3, 1)
    /\ ret.heatwave.dates[arg.i + 1] = Dates(SliceStart, SliceStart + 2)
    /\ ret.no_ppt.dates[arg.i + 1] = Dates(SliceStart, SliceStart + 2)

---------------------------------------------------------------------------
(* C27: for both collection dates and for heatwaves, dry spells and days  *)
(* without rain, the interannual in-season max length, when present, is   *)
(* at most the largest of the five per-year max lengths.                  *)

YearMaxes(q) == {q.max[i][2] : i \in {j \in Yrs : q.max[j] # NaN}}

PooledWithinYearly(q) ==
    q.inter_max # NaN =>
        /\ YearMaxes(q) # {}
        /\ q.inter_max[2] <= MaxOf(YearMaxes(q))

C27_PooledWithinYearly ==
    pc = "done" =>
        \A c \in Collects :
            /\ PooledWithinYearly(res.metrics[c].heatwave)
            /\ PooledWithinYearly(res.metrics[c].dry_spell)
            /\ PooledWithinYearly(res.metrics[c].no_ppt)

---------------------------------------------------------------------------
(* C28: in every record of the spell metrics, a per-year heatwave or dry  *)
(* spell max length comes with a count of at least 1 and with             *)
(* 3 <= mean length <= max length <= number of days of the slice; a       *)
(* rainless max length is at least 2; and the date range of a slice is    *)
(* present exactly when its max length is.                                *)

SpellConsistent(q, c) ==
    \A i \in Yrs :
        /\ (q.dates[i] # NaN) <=> (q.max[i] # NaN)
        /\ q.max[i] # NaN =>
              /\ IsNum(q.totalN[i]) /\ q.totalN[i][2] >= 1
              /\ IsNum(q.avg[i])
              /\ RatLeq(Num(MinSpell, 1), q.avg[i])
              /\ RatLeq(q.avg[i], q.max[i])
              /\ q.max[i][2] <= Cardinality(LookbackSlice(c, i))

C28_RecordConsistency ==
    pc = "done" =>
        \A c \in Collects :
            /\ SpellConsistent(res.metrics[c].heatwave, c)
            /\ SpellConsistent(res.metrics[c].dry_spell, c)
            /\ \A i \in Yrs :
                  LET n == res.metrics[c].no_ppt
                  IN  /\ (n.dates[i] # NaN) <=> (n.max[i] # NaN)
                      /\ n.max[i] # NaN => n.max[i][2] >= 2

(* a record with a heatwave in a year slice and a rainless run of 2 days *)
C28_Witness ==
    /\ pc = "done"
    /\ \E c \in Collects : \E i \in Yrs :
          /\ res.metrics[c].heatwave.max[i] # NaN
          /\ res.metrics[c].heatwave.totalN[i][2] >= 1
          /\ res.metrics[c].no_ppt.max[i] = Num(2, 1)

---------------------------------------------------------------------------
(* Reference notions for the passes of the loop.                          *)

LocOf(s) == <<s.Lat, s.Lon>>

(* the number of passes of the loop that have started *)
Started == IF pc = "site" THEN ret.isite + 1 ELSE ret.isite

(* the passes (from 0) whose site is not at the location of the previous  *)
(* site                                                                   *)
NewLocPasses ==
    {i \in 0..(Started - 1) : i = 0 \/ LocOf(arg.df1[i + 1]) # LocOf(arg.df1[i])}

(* the number of passes that read the file of location l *)
LoadsOf(l) ==
    Cardinality({k \in 1..Len(ret.reads) : LocOf(arg.df1[ret.reads[k] + 1]) = l})

---------------------------------------------------------------------------
(* C24: a file is read on a pass exactly when the pass is the first one   *)
(* or the latitude or the longitude of its site differs from that of the  *)
(* previous site, the other passes keep the series of the previous pass;  *)
(* and as the list is sorted by location before the loop, the file of     *)
(* every location of the list is read exactly once in a run.              *)

C24_SeriesReuse ==
    pc # "read" =>
        /\ ret.reads = SortedSeq(NewLocPasses)
        /\ \A i \in 1..(Len(arg.df1) - 1) : KeyLeq(arg.df1[i], arg.df1[i + 1])
        /\ \A l \in SiteLocs : LoadsOf(l) <= 1
        /\ pc = "written" =>
              \A i \in 1..Len(arg.df1) : LoadsOf(LocOf(arg.df1[i])) = 1

(* a list given as location, other location, first location again: after *)
(* the sort two passes read a file and the third reuses the series        *)
C24_Witness ==
    /\ pc = "written"
    /\ Len(ret.out) = LoopLen
    /\ Len(ret.reads) = 2
    /\ \E i \in 1..2 :
          /\ LocOf(arg.df1[i]) = LocOf(arg.df1[i + 1])
          /\ arg.df1[i].Old # arg.df1[i + 1].Old

---------------------------------------------------------------------------
(* C29: whatever the order of the sites, the series of every pass is the  *)
(* one read from the file of the location of the site of that pass: it    *)
(* was read on the last pass that read a file, for a site at the same     *)
(* latitude and longitude, and it has the rows of that file.              *)

C29_SeriesMatchesSite ==
    (pc = "site" \/ (pc \in {"loop", "written"} /\ ret.isite > 0)) =>
        /\ site = arg.df1[Started]
        /\ ret.reads # << >>
        /\ LocOf(arg.df1[ret.reads[Len(ret.reads)] + 1]) = LocOf(site)
        /\ df.first = DaysFromCivil(first_year(arg.df1, site), 1, 1)
        /\ df.last - df.first + 1 = FileOf(site).n

(* sites given as a location, another location at the same latitude, and  *)
(* the first location again: every pass reads the file of its site        *)
C29_Witness ==
    /\ pc = "written"
    /\ ret.reads = <<0, 1, 2>>
    /\ arg.df1[1].Lat = arg.df1[2].Lat
    /\ LocOf(arg.df1[1]) # LocOf(arg.df1[2])
    /\ LocOf(arg.df1[1]) = LocOf(arg.df1[3])
    /\ df.last - df.first + 1 = FileOf(arg.df1[3]).n

---------------------------------------------------------------------------
(* Reference notions for two calls in a row.                              *)

(* the last two calls are calls of the same function on the same series *)
SameCallTwice ==
    /\ arg.n = 2
    /\ ret.kind = arg.kind
    /\ ret.df = arg.df

---------------------------------------------------------------------------
(* C21: a second call of day_forcings, other_period or metrics for the    *)
(* same site and the same unmodified series, with a new site record or    *)
(* with the record the first call filled, returns a record equal to the   *)
(* first one field by field, absent fields included.                      *)

C21_Idempotence ==
    (SameCallTwice /\ ret.site = arg.site) =>
        /\ res = ret.res
        /\ \A c \in Collects : DOMAIN res[c] = DOMAIN ret.res[c]

(* metrics called again with the record it filled: the rainless run of    *)
(* the two days before the old collection date and the pooled max of the  *)
(* modern date are reported as before, the absent fields are still absent *)
C21_Witness ==
    /\ SameCallTwice
    /\ ret.site = arg.site
    /\ arg.kind = "metrics"
    /\ arg.p = ret.res
    /\ site.Old = DaysFromCivil(2006, 3, 1)
    /\ res["Old"].no_ppt.max[1] = Num(2, 1)
    /\ res["Modern"].no_ppt.inter_max = Num(2, 1)
    /\ res["Old"].no_ppt.max[2] = NaN
    /\ res["Old"].heatwave.recent = NaN

(* other_period called twice with a new record *)
C21_WitnessPeriod ==
    /\ SameCallTwice
    /\ ret.site = arg.site
    /\ arg.kind = "month"
    /\ arg.p = new_record("month")
    /\ res["Old"].max_noppt # NaN

---------------------------------------------------------------------------
(* C25: after any sequence of calls of day_forcings, other_period and     *)
(* metrics, for any sites, the series is the series before the calls: the *)
(* same dates, the same columns (no smoothed column is left in it) and    *)
(* the same values.                                                       *)

---------------------------------------------------------------------------
(* C30: for two sites at the same latitude and the same series, the       *)
(* fields of the old collection date are equal when the old collection    *)
(* dates are, whatever the modern collection dates, and the fields of the *)
(* modern collection date are equal when the modern collection dates are, *)
(* whatever the old collection dates.                                     *)

C30_DatesIndependent ==
    (SameCallTwice /\ ret.site.Lat = arg.site.Lat
        /\ arg.p = new_record(arg.kind) /\ ret.p = new_record(ret.kind)) =>
        /\ ret.site.Old = arg.site.Old => res["Old"] = ret.res["Old"]
        /\ ret.site.Modern = arg.site.Modern => res["Modern"] = ret.res["Modern"]

(* metrics for two sites that differ in the old collection date only: the *)
(* modern fields are equal and hold heatwaves, the old fields differ      *)
C30_Witness ==
    /\ SameCallTwice
    /\ arg.kind = "metrics"
    /\ ret.site.Old # arg.site.Old
    /\ ret.site.Modern = arg.site.Modern
    /\ res["Modern"] = ret.res["Modern"]
    /\ res["Old"] # ret.res["Old"]
    /\ \E i \in Yrs : res["Modern"].heatwave.max[i] # NaN

(* the 5 years period for two sites that differ in the modern collection  *)
(* date only                                                              *)
C30_WitnessOld ==
    /\ SameCallTwice
    /\ arg.kind = "5 years"
    /\ ret.site.Modern # arg.site.Modern
    /\ res["Old"] = ret.res["Old"]
    /\ res["Modern"] # ret.res["Modern"]

===========================================================================
